---- MODULE Spec2Model ----
(***************************************************************************)
(* McpHub (src/src/services/mcp/McpHub.ts): the registry of connections    *)
(* to tool servers, its reconciliation against the settings file, restart, *)
(* the transport callbacks and the invocation interface.                   *)
(*                                                                         *)
(* The hub runs on one JavaScript event loop.  An async method runs        *)
(* without interruption from the point where it is resumed to its next     *)
(* await of an I/O result (close, start, connect, request, file read,      *)
(* timer); at such an await any other handler may run.  An await of an     *)
(* async method that has already returned only passes through the          *)
(* microtask queue and is no interleaving point.  Each action below is one *)
(* such run: it resumes one operation with the outcome of the awaited call *)
(* and executes the code up to the next I/O await (operator Run).          *)
(***************************************************************************)
EXTENDS Integers, Sequences, FiniteSets, TLC

VARIABLES
    connections,    \* McpHub.connections: the registry, in insertion order
    isConnecting,   \* McpHub.isConnecting
    settings,       \* mcpServers of the settings file: server name -> config
    fileWatchers,   \* McpHub.fileWatchers: the names that have a watcher
    transports,     \* the transport/client pairs the hub has created, by id
    nextId,         \* the next connection object to be allocated
    maxId,          \* the last connection object the behaviour may allocate
    faults,         \* failures the environment has caused so far
    lastCall,       \* the call that has just been made on the hub and what it returned
    procs,          \* the hub operations in flight and where each is suspended
    pendingNotifications,   \* McpHub.pendingNotifications
    notificationCallback,   \* McpHub.notificationCallback is set
    received,       \* the notifications the peers have sent so far, in arrival order
    callbackCalls,  \* the calls of the notification callback so far
    drained,        \* what the calls of getPendingNotifications have returned so far
    file,           \* mcpServers as JSON.parse reads it from the settings file: keys in order
    wsConnectionReady,      \* remote-mode webview client: wsConnectionReady
    wsConnectionPromise,    \* wsConnectionPromise is not null
    sockets,        \* the WebSocket objects the client has created, in creation order
    reconnects,     \* the reconnect timers (3 s after a close) that have not fired yet
    remoteWebsocket \* window.__remote_websocket__: 0, or the index of a socket

vars ==
    <<connections, isConnecting, settings, fileWatchers, transports, nextId, maxId,
      faults, lastCall, procs, pendingNotifications, notificationCallback, received,
      callbackCalls, drained, file, wsConnectionReady, wsConnectionPromise, sockets,
      reconnects, remoteWebsocket>>

\* the state of the hub, which the webview client does not touch
hub ==
    <<connections, isConnecting, settings, fileWatchers, transports, nextId, maxId,
      faults, lastCall, procs, pendingNotifications, notificationCallback, received,
      callbackCalls, drained, file>>

\* the state of the remote-mode webview client, a program of its own
webview == <<wsConnectionReady, wsConnectionPromise, sockets, reconnects, remoteWebsocket>>

\* the module of the webview client has been loaded (lines 56-57)
ModuleLoaded ==
    /\ wsConnectionReady = FALSE
    /\ wsConnectionPromise = FALSE
    /\ sockets = <<>>
    /\ reconnects = 0
    /\ remoteWebsocket = 0

\* the state of the notification router and of its observers
router == <<pendingNotifications, notificationCallback, received, callbackCalls, drained>>

----------------------------------------------------------------------------
(* Bounds *)

MaxConns == 2           \* connection objects created in one behaviour
MaxConnsOverlap == 3    \* the same, where operations overlap
MaxProcs == 2           \* hub operations in flight at the same time
MaxFaults == 1          \* failures (a call that throws, a transport error) in one behaviour
MaxSorted == 3          \* entries of a registry handed to getSortedMcpServers
MaxNotifications == 3   \* notifications the peers send in one behaviour
MaxApprove == 2         \* tool names in an autoApprove list of the file a behaviour starts with
MaxSockets == 4         \* WebSocket objects the webview client creates in one behaviour

Names == {"A", "B"}
NameOrder == <<"A", "B">>

----------------------------------------------------------------------------
(* Server configurations and their serialized form *)

\* the least timeout the schema accepts and the timeout of a configuration
\* that has none, in seconds (imported at lines 24 and 31)
MIN_MCP_TIMEOUT_SECONDS == 1
DEFAULT_MCP_TIMEOUT_SECONDS == 60

Cfg(t, d, to, a) ==
    [type |-> t, disabled |-> d, timeout |-> to, args |-> a, autoApprove |-> <<>>]

NoCfg == Cfg("none", FALSE, 0, "")

\* the configurations the settings file is edited to, per server name
CfgPool(name) ==
    IF name = "A"
    THEN { Cfg("stdio", FALSE, 60, "build/index.js"),
           Cfg("stdio", FALSE, 120, "build/index.js"),
           Cfg("stdio", TRUE, 60, "main.py") }
    ELSE { Cfg("sse", FALSE, 60, ""), Cfg("streamableHttp", FALSE, 60, "") }

\* the contents of the settings file that name the servers of names only
SettingsPool(names) ==
    UNION { { f \in [S -> UNION {CfgPool(n) : n \in names}] :
                \A n \in S : f[n] \in CfgPool(n) } : S \in SUBSET names }

NoServers == [n \in {} |-> NoCfg]

\* JSON.stringify(config): the text kept in server.config
Stringify(c) ==
    <<"type", c.type, "disabled", c.disabled, "timeout", c.timeout, "args", c.args,
      "autoApprove", c.autoApprove>>

\* JSON.parse(server.config)
Parse(s) ==
    [type |-> s[2], disabled |-> s[4], timeout |-> s[6], args |-> s[8], autoApprove |-> s[10]]

\* fast-deep-equal on two parsed configurations
deepEqual(a, b) ==
    /\ a.type = b.type
    /\ a.disabled = b.disabled
    /\ a.timeout = b.timeout
    /\ a.args = b.args
    /\ a.autoApprove = b.autoApprove

\* A JSON object as JavaScript keeps it: the sequence of its <<key, value>>
\* pairs in insertion order.  obj[k] !== undefined, obj[k], obj[k] = v (the
\* place of an existing key is kept, a new key goes last), delete obj[k]
Has(obj, k) == \E i \in 1..Len(obj) : obj[i][1] = k
Get(obj, k) == obj[CHOOSE i \in 1..Len(obj) : obj[i][1] = k][2]
Put(obj, k, v) ==
    IF Has(obj, k)
    THEN [i \in 1..Len(obj) |-> IF obj[i][1] = k THEN <<k, v>> ELSE obj[i]]
    ELSE Append(obj, <<k, v>>)
Del(obj, k) == SelectSeq(obj, LAMBDA kv : kv[1] # k)

\* ServerConfigSchema.parse(config): the validated configuration; the parse
\* adds the transportType field (lines 1006-1008)
ServerConfigSchemaParse(config) ==
    IF Has(config, "transportType") THEN config
    ELSE Put(config, "transportType", IF Has(config, "command") THEN "stdio" ELSE "sse")

\* readAndValidateMcpSettingsFile, lines 101-134, on a file that passes:
\* each entry of mcpServers as the schema returns it
readAndValidateMcpSettingsFile(mcpServers) ==
    [i \in 1..Len(mcpServers) |->
        <<mcpServers[i][1], ServerConfigSchemaParse(mcpServers[i][2])>>]

\* a settings file whose text is not JSON, in the shape of the other
\* contents
Malformed == <<<<"{", <<>>>>>>

\* McpSettingsSchema.safeParse(config).success: a timeout, when there is
\* one, is not below the minimum
McpSettingsSchemaAccepts(mcpServers) ==
    \A i \in 1..Len(mcpServers) :
        Has(mcpServers[i][2], "timeout") =>
            Get(mcpServers[i][2], "timeout") >= MIN_MCP_TIMEOUT_SECONDS

\* lines 108-127: readAndValidateMcpSettingsFile returns the settings and
\* not undefined
settingsValid(content) == content # Malformed /\ McpSettingsSchemaAccepts(content)

\* the configuration a reconcile pass gets for an entry of the file
desiredConfig(config) ==
    [ Cfg(Get(ServerConfigSchemaParse(config), "transportType"),
          IF Has(config, "disabled") THEN Get(config, "disabled") ELSE FALSE,
          IF Has(config, "timeout") THEN Get(config, "timeout")
          ELSE DEFAULT_MCP_TIMEOUT_SECONDS,
          IF Has(config, "args") THEN Get(config, "args") ELSE "")
      EXCEPT !.autoApprove = IF Has(config, "autoApprove") THEN Get(config, "autoApprove")
                             ELSE <<>> ]

\* the configurations a reconcile pass gets for the file
desiredServers(mcpServers) ==
    [n \in { mcpServers[i][1] : i \in 1..Len(mcpServers) } |->
        desiredConfig(Get(mcpServers, n))]

\* toggleServerDisabledRPC, lines 786-795: what the file holds afterwards
toggleServerDisabledWrite(mcpServers, serverName, disabled) ==
    LET config == readAndValidateMcpSettingsFile(mcpServers) IN
    IF Has(config, serverName)
    THEN Put(config, serverName, Put(Get(config, serverName), "disabled", disabled))
    ELSE mcpServers

\* updateServerTimeoutRPC, lines 1069-1087: what the file holds afterwards
updateServerTimeoutWrite(mcpServers, serverName, timeout) ==
    IF Has(mcpServers, serverName)
    THEN Put(mcpServers, serverName, Put(Get(mcpServers, serverName), "timeout", timeout))
    ELSE mcpServers

\* addRemoteServer, lines 982-1014: what the file holds afterwards
addRemoteServerWrite(mcpServers, serverName, serverUrl) ==
    LET validated == readAndValidateMcpSettingsFile(mcpServers)
        serverConfig == <<<<"url", serverUrl>>, <<"disabled", FALSE>>, <<"autoApprove", <<>>>>>>
    IN  IF Has(validated, serverName) THEN mcpServers
        ELSE Put(validated, serverName, serverConfig)

\* deleteServerRPC, lines 1034-1045: what the file holds afterwards
deleteServerWrite(mcpServers, serverName) == Del(mcpServers, serverName)

\* the elements of the list
Range(list) == { list[i] : i \in 1..Len(list) }

\* the autoApprove list of serverName in the file, [] when there is none
\* (line 473: config.mcpServers[serverName]?.autoApprove || [])
autoApproveConfig(mcpServers, serverName) ==
    IF Has(mcpServers, serverName) /\ Has(Get(mcpServers, serverName), "autoApprove")
    THEN Get(Get(mcpServers, serverName), "autoApprove")
    ELSE <<>>

\* lines 476-479: the tools the peer answered, each with its autoApprove flag
annotated(tools, autoApprove) ==
    [i \in 1..Len(tools) |-> [name |-> tools[i], autoApprove |-> tools[i] \in Range(autoApprove)]]

----------------------------------------------------------------------------
(* Registry entries (McpConnection) *)

\* what a peer answers to the three discovery requests
PeerTools == <<"t1">>
PeerResources == <<"r1">>
PeerTemplates == <<"rt1">>

\* an optional list: <<>> is undefined, <<l>> is the list l
Undefined == <<>>
Some(l) == <<l>>

\* lines 198-207: the entry of a disabled server, no client and no transport
DisabledConnection(id, name, config) ==
    [ id |-> id, name |-> name, config |-> Stringify(config),
      status |-> "disconnected", disabled |-> TRUE, error |-> <<>>,
      tools |-> Undefined, resources |-> Undefined, resourceTemplates |-> Undefined,
      client |-> 0, transport |-> 0 ]

\* lines 332-341: the entry of an enabled server
NewConnection(id, name, config) ==
    [ id |-> id, name |-> name, config |-> Stringify(config),
      status |-> "connecting", disabled |-> config.disabled, error |-> <<>>,
      tools |-> Undefined, resources |-> Undefined, resourceTemplates |-> Undefined,
      client |-> id, transport |-> id ]

\* the transport and client created for connection object id
NewTransport(name, config) ==
    [ name |-> name, kind |-> config.type, config |-> config,
      closeT |-> FALSE, closeC |-> FALSE, closed |-> FALSE ]

NoTransports == [i \in {} |-> NewTransport("", NoCfg)]

\* connections.find((conn) => conn.server.name === name): its index, 0 if none
findConnection(cs, name) ==
    IF \E i \in 1..Len(cs) : cs[i].name = name
    THEN CHOOSE i \in 1..Len(cs) :
            /\ cs[i].name = name
            /\ \A j \in 1..(i - 1) : cs[j].name # name
    ELSE 0

\* connections.filter((conn) => conn.server.name !== name)
RemoveNamed(cs, name) == SelectSeq(cs, LAMBDA c : c.name # name)

\* new Set(this.connections.map((conn) => conn.server.name)), in iteration order
RECURSIVE currentNames(_)
currentNames(cs) ==
    IF cs = <<>> THEN <<>>
    ELSE LET rest == currentNames(SelectSeq(Tail(cs), LAMBDA c : c.name # Head(cs).name))
         IN  <<Head(cs).name>> \o rest

\* Object.keys(newServers), in key order
serverKeys(servers) == SelectSeq(NameOrder, LAMBDA n : n \in DOMAIN servers)

\* appendErrorMessage: the text is kept as the sequence of its lines
appendErrorMessage(c, msg) ==
    [c EXCEPT !.error = IF c.error # <<>> THEN c.error \o <<msg>> ELSE <<msg>>]

----------------------------------------------------------------------------
(* Hub operations in flight *)

\* One record per operation.  kind: which method; source: "internal" or "rpc";
\* pc: the await it is suspended at.  desired/delQ/addQ: newServers and the
\* two loops of updateServerConnections.  name/cfg: the arguments of the
\* deleteConnection or connectToServer call in progress.  cur: the connection
\* object connectToServer created (its local `connection`); victim: the
\* client of the entry deleteConnection found.  threw: connectToServer threw.
\* Bookkeeping for the properties: failed (names whose connect threw),
\* closeThrew, start (the registry when the operation began), solo (no other
\* hub operation ran since it began), quiet (no transport callback since).
Idle ==
    [ kind |-> "idle", source |-> "", pc |-> "idle", desired |-> NoServers,
      delQ |-> <<>>, addQ |-> <<>>, phase |-> "", name |-> "", cfg |-> NoCfg,
      cur |-> 0, victim |-> 0, request |-> FALSE, threw |-> FALSE, flag |-> FALSE,
      failed |-> {}, closeThrew |-> FALSE, start |-> <<>>, solo |-> TRUE, quiet |-> TRUE,
      sent |-> <<>> ]

\* no call of the invocation interface is being observed
NoCall == [op |-> "none", name |-> "", before |-> <<>>, outcome |-> ""]

\* the points where an operation waits for I/O, or has ended
YieldPcs ==
    { "idle", "closeT", "closeC", "start", "connect", "tools", "resources",
      "templates", "notify", "delay", "written", "done", "threw", "disposed" }

\* the hub state one run works on, with the running operation r
Mach(r) ==
    [ conns |-> connections, tr |-> transports, nextId |-> nextId, maxId |-> maxId,
      isConnecting |-> isConnecting, watchers |-> fileWatchers,
      p |-> r, overflow |-> FALSE ]

\* a write to a field of the connection object p.cur through connectToServer's
\* local reference; an object no longer in the registry is not observable
SetCur(m, field, v) ==
    [ i \in 1..Len(m.conns) |->
        IF m.conns[i].id = m.p.cur THEN [m.conns[i] EXCEPT ![field] = v] ELSE m.conns[i] ]

----------------------------------------------------------------------------
(* The code between two awaits, one operator per stretch of straight-line  *)
(* code.  Each takes the hub state m with the operation m.p at an inner    *)
(* position and returns the state at the next position.                    *)

\* setupFileWatcher, lines 644-661
setupFileWatcher(watchers, name, config) ==
    IF config.args = "build/index.js" THEN watchers \cup {name} ELSE watchers

\* updateServerConnections, lines 604-609: delete the servers no longer desired
deleteRemoved(m) ==
    IF m.p.delQ = <<>>
    THEN [m EXCEPT !.p.pc = "addLoop"]
    ELSE IF Head(m.p.delQ) \notin DOMAIN m.p.desired
    THEN [m EXCEPT !.p.name = Head(m.p.delQ), !.p.delQ = Tail(m.p.delQ),
                   !.p.phase = "del", !.p.pc = "deleteConnection"]
    ELSE [m EXCEPT !.p.delQ = Tail(m.p.delQ)]

\* deleteConnection, lines 533-542, up to its first await
deleteConnection(m) ==
    LET i == findConnection(m.conns, m.p.name) IN
    IF i = 0
    THEN [m EXCEPT !.p.pc = "deleted"]
    ELSE IF m.conns[i].transport # 0
    THEN [m EXCEPT !.tr[m.conns[i].transport].closeT = TRUE,
                   !.p.victim = m.conns[i].client, !.p.pc = "closeT"]
    ELSE IF m.conns[i].client # 0
    THEN [m EXCEPT !.tr[m.conns[i].client].closeC = TRUE,
                   !.p.victim = m.conns[i].client, !.p.pc = "closeC"]
    ELSE [m EXCEPT !.p.pc = "filter"]

\* deleteConnection, lines 540-542: transport.close() returned
closeClient(m) ==
    IF m.p.victim # 0
    THEN [m EXCEPT !.tr[m.p.victim].closeC = TRUE, !.p.pc = "closeC"]
    ELSE [m EXCEPT !.p.pc = "filter"]

\* deleteConnection, line 546
removeConnection(m) ==
    [m EXCEPT !.conns = RemoveNamed(m.conns, m.p.name), !.p.pc = "deleted"]

\* the statement after `await this.deleteConnection(name)`: lines 606-607,
\* 632 and 716
afterDelete(m) ==
    IF m.p.kind = "reconcile" /\ m.p.phase = "del"
    THEN [m EXCEPT !.p.pc = "delLoop"]
    ELSE IF m.p.kind = "dispose"
    THEN [m EXCEPT !.p.pc = "disposeLoop"]
    ELSE [m EXCEPT !.p.pc = "connectToServer"]

\* dispose, lines 1134-1135: the watchers are closed and the loop starts over
\* the entries the registry holds at this moment
dispose(m) ==
    [m EXCEPT !.watchers = {},
              !.p.delQ = [i \in 1..Len(m.conns) |-> m.conns[i].name],
              !.p.pc = "disposeLoop"]

\* dispose, lines 1135-1146: one iteration of the loop, or the statements
\* after it; an operation at "disposed" is the dispose() that has completed
disposeLoop(m) ==
    IF m.p.delQ = <<>>
    THEN [m EXCEPT !.conns = <<>>, !.p.pc = "disposed"]
    ELSE [m EXCEPT !.p.name = Head(m.p.delQ), !.p.delQ = Tail(m.p.delQ),
                   !.p.phase = "dispose", !.p.pc = "deleteConnection"]

\* as updateOrAdd, but a changed configuration is written into the entry
\* instead of deleting and recreating it
updateOrAddInPlace(m) ==
    IF m.p.addQ = <<>>
    THEN [m EXCEPT !.p.pc = "publish"]
    ELSE LET name == Head(m.p.addQ)
             config == m.p.desired[name]
             i == findConnection(m.conns, name)
         IN  IF i = 0
             THEN [m EXCEPT !.p.addQ = Tail(m.p.addQ), !.p.name = name, !.p.cfg = config,
                            !.p.phase = "add", !.p.pc = "connectToServer"]
             ELSE [m EXCEPT !.p.addQ = Tail(m.p.addQ),
                            !.conns[i].config = Stringify(config)]

updateOrAddRetry(m) ==
    IF m.p.addQ = <<>>
    THEN [m EXCEPT !.p.pc = "publish"]
    ELSE LET name == Head(m.p.addQ)
             config == m.p.desired[name]
             i == findConnection(m.conns, name)
             watched == IF config.type = "stdio"
                        THEN setupFileWatcher(m.watchers, name, config)
                        ELSE m.watchers
         IN  IF i = 0
             THEN [m EXCEPT !.p.addQ = Tail(m.p.addQ), !.p.name = name, !.p.cfg = config,
                            !.p.phase = "add", !.watchers = watched,
                            !.p.pc = "connectToServer"]
             ELSE IF \/ ~deepEqual(Parse(m.conns[i].config), config)
                     \/ m.conns[i].status = "disconnected" /\ ~m.conns[i].disabled
             THEN [m EXCEPT !.p.addQ = Tail(m.p.addQ), !.p.name = name, !.p.cfg = config,
                            !.p.phase = "add", !.watchers = watched,
                            !.p.pc = "deleteConnection"]
             ELSE [m EXCEPT !.p.addQ = Tail(m.p.addQ)]

\* updateServerConnections, lines 612-639: one iteration of the second loop
updateOrAdd(m) ==
    IF m.p.addQ = <<>>
    THEN [m EXCEPT !.p.pc = "publish"]
    ELSE LET name == Head(m.p.addQ)
             config == m.p.desired[name]
             i == findConnection(m.conns, name)
             watched == IF config.type = "stdio"
                        THEN setupFileWatcher(m.watchers, name, config)
                        ELSE m.watchers
         IN  IF i = 0
             THEN [m EXCEPT !.p.addQ = Tail(m.p.addQ), !.p.name = name, !.p.cfg = config,
                            !.p.phase = "add", !.watchers = watched,
                            !.p.pc = "connectToServer"]
             ELSE IF ~deepEqual(Parse(m.conns[i].config), config)
             THEN [m EXCEPT !.p.addQ = Tail(m.p.addQ), !.p.name = name, !.p.cfg = config,
                            !.p.phase = "add", !.watchers = watched,
                            !.p.pc = "deleteConnection"]
             ELSE [m EXCEPT !.p.addQ = Tail(m.p.addQ)]

\* connectToServer, lines 193-258 and 332-345, up to its first await: the
\* await of transport.start() for stdio, of client.connect() otherwise
connectToServer(m) ==
    LET cs == RemoveNamed(m.conns, m.p.name)
        id == m.nextId
    IN  IF id > m.maxId
        THEN [m EXCEPT !.overflow = TRUE, !.p.pc = "idle"]
        ELSE IF m.p.cfg.disabled
        THEN [m EXCEPT !.conns = Append(cs, DisabledConnection(id, m.p.name, m.p.cfg)),
                       !.nextId = id + 1, !.p.threw = FALSE, !.p.pc = "returned"]
        ELSE IF m.p.cfg.type = "stdio"
        THEN [m EXCEPT !.conns = cs,
                       !.tr = m.tr @@ (id :> NewTransport(m.p.name, m.p.cfg)),
                       !.nextId = id + 1, !.p.cur = id, !.p.pc = "start"]
        ELSE [m EXCEPT !.conns = Append(cs, NewConnection(id, m.p.name, m.p.cfg)),
                       !.tr = m.tr @@ (id :> NewTransport(m.p.name, m.p.cfg)),
                       !.nextId = id + 1, !.p.cur = id, !.p.pc = "connect"]

\* connectToServer, lines 259-282 and 332-345: transport.start() returned
registerConnection(m) ==
    [m EXCEPT !.conns = Append(m.conns, NewConnection(m.p.cur, m.p.name, m.p.cfg)),
              !.p.pc = "connect"]

\* connectToServer, lines 347-348: client.connect() returned
markConnected(m) ==
    [m EXCEPT !.conns = [ i \in 1..Len(m.conns) |->
                            IF m.conns[i].id = m.p.cur
                            THEN [m.conns[i] EXCEPT !.status = "connected", !.error = <<>>]
                            ELSE m.conns[i] ],
              !.p.pc = "fetchTools"]

\* connectToServer, lines 437-445: the catch block
catchConnectError(m) ==
    LET i == findConnection(m.conns, m.p.name) IN
    IF i # 0
    THEN [m EXCEPT !.conns[i] = appendErrorMessage(
                                    [m.conns[i] EXCEPT !.status = "disconnected"],
                                    "connect error"),
                   !.p.threw = TRUE, !.p.pc = "returned"]
    ELSE [m EXCEPT !.p.threw = TRUE, !.p.pc = "returned"]

\* fetchToolsList, fetchResourcesList, fetchResourceTemplatesList up to the
\* request (lines 455-466, 491-498, 510-517): TRUE when a request is sent
sendsListRequest(cs, name) ==
    LET i == findConnection(cs, name) IN
    i # 0 /\ ~cs[i].disabled /\ cs[i].client # 0

\* line 434
fetchToolsList(m) ==
    IF sendsListRequest(m.conns, m.p.name)
    THEN [m EXCEPT !.p.pc = "tools"]
    ELSE [m EXCEPT !.conns = SetCur(m, "tools", Some(<<>>)), !.p.pc = "fetchResources"]

\* line 435
fetchResourcesList(m) ==
    IF sendsListRequest(m.conns, m.p.name)
    THEN [m EXCEPT !.p.pc = "resources"]
    ELSE [m EXCEPT !.conns = SetCur(m, "resources", Some(<<>>)), !.p.pc = "fetchTemplates"]

\* line 436
fetchResourceTemplatesList(m) ==
    IF sendsListRequest(m.conns, m.p.name)
    THEN [m EXCEPT !.p.pc = "templates"]
    ELSE [m EXCEPT !.conns = SetCur(m, "resourceTemplates", Some(<<>>)),
                   !.p.threw = FALSE, !.p.pc = "returned"]

\* as afterConnect, without the catch blocks: what connectToServer throws
\* ends the operation
afterConnectRethrows(m) ==
    IF m.p.threw
    THEN [m EXCEPT !.p.failed = m.p.failed \cup {m.p.name}, !.p.pc = "threw"]
    ELSE IF m.p.kind = "reconcile"
    THEN [m EXCEPT !.p.pc = "addLoop"]
    ELSE [m EXCEPT !.p.pc = "publish"]

\* the statement after `await this.connectToServer(...)`: the catch blocks of
\* lines 622-624, 634-636 and 721-727 log the failure and go on
afterConnect(m) ==
    LET failed == IF m.p.threw THEN m.p.failed \cup {m.p.name} ELSE m.p.failed IN
    IF m.p.kind = "reconcile"
    THEN [m EXCEPT !.p.failed = failed, !.p.pc = "addLoop"]
    ELSE [m EXCEPT !.p.failed = failed, !.p.pc = "publish"]

\* lines 640, 730 and 687-689: the last await of the operation
publish(m) ==
    IF m.p.kind = "reconcile" /\ m.p.source = "rpc"
    THEN [m EXCEPT !.isConnecting = FALSE, !.p.phase = "publish", !.p.pc = "done"]
    ELSE IF m.p.source = "rpc"
    THEN [m EXCEPT !.isConnecting = FALSE, !.p.phase = "publish", !.p.pc = "notify"]
    ELSE [m EXCEPT !.p.phase = "publish", !.p.pc = "notify"]

\* lines 641, 731 and 690-695: the operation ends.  sent: the servers handed
\* to sendMcpServersUpdate (line 760) by notifyWebviewOfServerChanges, which
\* restartConnectionRPC does not call
finish(m) ==
    IF m.p.source = "rpc"
    THEN [m EXCEPT !.isConnecting = FALSE, !.p.pc = "done"]
    ELSE [m EXCEPT !.isConnecting = FALSE, !.p.sent = Some(m.conns), !.p.pc = "done"]

\* restartConnection lines 699-712, restartConnectionRPC lines 669-677: up
\* to the await of the publication and of the 500 ms delay
restartConnection(m) ==
    LET i == findConnection(m.conns, m.p.name) IN
    IF i # 0
    THEN [m EXCEPT !.isConnecting = TRUE,
                   !.conns[i] = [m.conns[i] EXCEPT !.status = "connecting", !.error = <<>>],
                   !.p.cfg = Parse(m.conns[i].config), !.p.phase = "restart",
                   !.p.pc = "delay"]
    ELSE [m EXCEPT !.isConnecting = TRUE, !.p.pc = "publish"]

\* updateServerConnections, lines 598-601
updateServerConnections(m) ==
    [m EXCEPT !.isConnecting = TRUE, !.watchers = {},
              !.p.delQ = currentNames(m.conns), !.p.addQ = serverKeys(m.p.desired),
              !.p.pc = "delLoop"]

\* one stretch of code
Sync(m) ==
    CASE m.p.pc = "reconcile"        -> updateServerConnections(m)
      [] m.p.pc = "restart"          -> restartConnection(m)
      [] m.p.pc = "delLoop"          -> deleteRemoved(m)
      [] m.p.pc = "deleteConnection" -> deleteConnection(m)
      [] m.p.pc = "closeClient"      -> closeClient(m)
      [] m.p.pc = "filter"           -> removeConnection(m)
      [] m.p.pc = "deleted"          -> afterDelete(m)
      [] m.p.pc = "dispose"          -> dispose(m)
      [] m.p.pc = "disposeLoop"      -> disposeLoop(m)
      [] m.p.pc = "addLoop"          -> updateOrAdd(m)
      [] m.p.pc = "connectToServer"  -> connectToServer(m)
      [] m.p.pc = "register"         -> registerConnection(m)
      [] m.p.pc = "connected"        -> markConnected(m)
      [] m.p.pc = "catch"            -> catchConnectError(m)
      [] m.p.pc = "fetchTools"       -> fetchToolsList(m)
      [] m.p.pc = "fetchResources"   -> fetchResourcesList(m)
      [] m.p.pc = "fetchTemplates"   -> fetchResourceTemplatesList(m)
      [] m.p.pc = "returned"         -> afterConnect(m)
      [] m.p.pc = "publish"          -> publish(m)
      [] m.p.pc = "finish"           -> finish(m)

\* run the operation to its next await (the state is bound as a value, so
\* that it is computed once per stretch)
RECURSIVE Run(_)
Run(m) ==
    CHOOSE r \in { IF v.p.pc \in YieldPcs THEN v ELSE Run(Sync(v)) : v \in {m} } : TRUE

----------------------------------------------------------------------------
(* Actions *)

\* another operation of the hub ran while r was in flight
Disturbed(r) == [r EXCEPT !.solo = FALSE, !.start = <<>>]

\* a transport callback ran while r was in flight
Called(r) == [r EXCEPT !.quiet = FALSE]

\* A transport can still call back while close() has not been called on it
\* or, for stdio, while its process has not reported its exit.  The table
\* keeps the transports that can call back or that an entry or an operation
\* in flight refers to.
Kept(tr, cs, ps) ==
    { id \in DOMAIN tr :
        \/ ~tr[id].closeT
        \/ tr[id].kind = "stdio" /\ ~tr[id].closed
        \/ \E i \in 1..Len(cs) : cs[i].transport = id
        \/ \E q \in 1..Len(ps) : ps[q].cur = id \/ ps[q].victim = id }

Live(tr, cs, ps) == [id \in Kept(tr, cs, ps) |-> tr[id]]

\* no operation has just ended and no call has just been made: the end of an
\* operation and the outcome of a call are observed (Retire, CallObserved)
\* before anything else happens
Settled ==
    /\ \A q \in 1..Len(procs) : procs[q].pc \notin {"done", "threw"}
    /\ lastCall.op = "none"

\* procs without its p-th operation
Without(p) == [q \in 1..(Len(procs) - 1) |-> IF q < p THEN procs[q] ELSE procs[q + 1]]

\* the hub state m, reached by one run of its operation m.p, becomes the
\* state; ps are the operations in flight
Commit(m, ps) ==
    /\ Settled
    /\ ~m.overflow
    /\ connections' = m.conns
    /\ transports' = Live(m.tr, m.conns, ps)
    /\ nextId' = m.nextId
    /\ UNCHANGED <<maxId, webview>>
    /\ isConnecting' = m.isConnecting
    /\ fileWatchers' = m.watchers
    /\ procs' = ps
    /\ UNCHANGED router
    /\ UNCHANGED lastCall

\* operation r is started and runs to its first await
Begin(r) ==
    LET m == Run(Mach(r)) IN
    /\ Len(procs) < MaxProcs
    /\ Commit(m, Append([q \in 1..Len(procs) |-> Disturbed(procs[q])], m.p))

\* the operation in flight p goes on from m and runs to its next await
Step(p, m) ==
    LET n == Run(m) IN
    /\ Commit(n, [q \in 1..Len(procs) |-> IF q = p THEN n.p ELSE Disturbed(procs[q])])
    /\ UNCHANGED file

Resume(p, pc) == Step(p, [Mach(procs[p]) EXCEPT !.p.pc = pc])

\* a call returns (ok) or throws; throwing is counted as a failure
Outcome(ok) ==
    /\ ok \/ faults < MaxFaults
    /\ faults' = IF ok THEN faults ELSE faults + 1

\* the settings file is written with content d (by the user, another program
\* or one of the hub's own writers) and the hub reads it: initializeMcpServers
\* (lines 176-181) and the onResponse handler of watchMcpSettingsFile (lines
\* 146-161) call updateServerConnections with what the file holds
SettingsChanged(d) ==
    /\ settings' = d
    /\ Begin([Idle EXCEPT !.kind = "reconcile", !.source = "internal", !.desired = d,
                          !.start = connections, !.pc = "reconcile"])
    /\ UNCHANGED <<faults, file>>

\* the watcher of name reports a change (lines 654-657): restartConnection
WatchedFileChanged(name) ==
    /\ name \in fileWatchers
    /\ Begin([Idle EXCEPT !.kind = "restart", !.source = "internal", !.name = name,
                          !.start = connections, !.pc = "restart"])
    /\ UNCHANGED router
    /\ UNCHANGED file
    /\ UNCHANGED <<settings, faults>>

\* dispose() has completed
Disposed == \E p \in 1..Len(procs) : procs[p].pc = "disposed"

\* the owner of the hub calls dispose(), lines 1133-1147
Dispose ==
    /\ ~Disposed
    /\ \A p \in 1..Len(procs) : procs[p].kind # "dispose"
    /\ Begin([Idle EXCEPT !.kind = "dispose", !.source = "internal",
                          !.start = connections, !.pc = "dispose"])
    /\ UNCHANGED router
    /\ UNCHANGED file
    /\ UNCHANGED <<settings, faults>>

\* a caller invokes restartConnectionRPC(name), lines 668-696
RestartConnectionRPC(name) ==
    /\ Begin([Idle EXCEPT !.kind = "restart", !.source = "rpc", !.name = name,
                          !.start = connections, !.pc = "restart"])
    /\ UNCHANGED router
    /\ UNCHANGED file
    /\ UNCHANGED <<settings, faults>>

\* the delay of line 677 or 712 has passed (ok), or the publication of line
\* 711 threw
DelayElapsed(p) ==
    /\ procs[p].pc = "delay"
    /\ \E ok \in BOOLEAN :
        /\ ok \/ procs[p].source = "internal"
        /\ Outcome(ok)
        /\ Resume(p, IF ok THEN "deleteConnection" ELSE "threw")
    /\ UNCHANGED settings

\* as TransportCloseReturns, but with the filter of line 546 inside the try
\* block: a close() that throws skips the removal
TransportCloseAborts(p) ==
    /\ procs[p].pc = "closeT"
    /\ \E ok \in BOOLEAN :
        /\ Outcome(ok)
        /\ Step(p, [Mach(procs[p]) EXCEPT !.p.pc = IF ok THEN "closeClient" ELSE "deleted",
                                          !.p.closeThrew = @ \/ ~ok])
    /\ UNCHANGED settings

\* transport.close() of line 538 returns or throws
TransportCloseReturns(p) ==
    /\ procs[p].pc = "closeT"
    /\ \E ok \in BOOLEAN :
        /\ Outcome(ok)
        /\ Step(p, [Mach(procs[p]) EXCEPT !.p.pc = IF ok THEN "closeClient" ELSE "filter",
                                          !.p.closeThrew = @ \/ ~ok])
    /\ UNCHANGED settings

\* client.close() of line 541 returns or throws
ClientCloseReturns(p) ==
    /\ procs[p].pc = "closeC"
    /\ \E ok \in BOOLEAN :
        /\ Outcome(ok)
        /\ Step(p, [Mach(procs[p]) EXCEPT !.p.pc = "filter", !.p.closeThrew = @ \/ ~ok])
    /\ UNCHANGED settings

\* transport.start() of line 258 returns or throws
TransportStartReturns(p) ==
    /\ procs[p].pc = "start"
    /\ \E ok \in BOOLEAN : Outcome(ok) /\ Resume(p, IF ok THEN "register" ELSE "catch")
    /\ UNCHANGED settings

\* client.connect(transport) of line 345 returns or throws
ClientConnectReturns(p) ==
    /\ procs[p].pc = "connect"
    /\ \E ok \in BOOLEAN : Outcome(ok) /\ Resume(p, IF ok THEN "connected" ELSE "catch")
    /\ UNCHANGED settings

\* lines 470-479: the tools the peer answered, annotated from the settings
\* file as it is when the answer arrives
fetchedTools(serverName) == annotated(PeerTools, autoApproveConfig(file, serverName))

\* as ToolsListReturns, with fetchToolsList lacking its try block: a failed
\* request is thrown into the catch block of connectToServer
ToolsListAborts(p) ==
    /\ procs[p].pc = "tools"
    /\ \E ok \in BOOLEAN :
        LET m == Mach(procs[p]) IN
        /\ Outcome(ok)
        /\ Step(p, IF ok THEN [m EXCEPT !.conns = SetCur(m, "tools", Some(fetchedTools(m.p.name))),
                                        !.p.pc = "fetchResources"]
                         ELSE [m EXCEPT !.p.pc = "catch"])
    /\ UNCHANGED settings

\* the tools/list request of line 466 is answered or fails (lines 470-486)
ToolsListReturns(p) ==
    /\ procs[p].pc = "tools"
    /\ \E ok \in BOOLEAN :
        LET m == Mach(procs[p]) IN
        /\ Outcome(ok)
        /\ Step(p, [m EXCEPT !.conns = SetCur(m, "tools",
                                             Some(IF ok THEN fetchedTools(m.p.name) ELSE <<>>)),
                             !.p.pc = "fetchResources"])
    /\ UNCHANGED settings

\* the resources/list request of line 498 is answered or fails
ResourcesListReturns(p) ==
    /\ procs[p].pc = "resources"
    /\ \E ok \in BOOLEAN :
        LET m == Mach(procs[p]) IN
        /\ Outcome(ok)
        /\ Step(p, [m EXCEPT !.conns = SetCur(m, "resources",
                                              Some(IF ok THEN PeerResources ELSE <<>>)),
                             !.p.pc = "fetchTemplates"])
    /\ UNCHANGED settings

\* the resources/templates/list request of line 517 is answered or fails
TemplatesListReturns(p) ==
    /\ procs[p].pc = "templates"
    /\ \E ok \in BOOLEAN :
        LET m == Mach(procs[p]) IN
        /\ Outcome(ok)
        /\ Step(p, [m EXCEPT !.conns = SetCur(m, "resourceTemplates",
                                              Some(IF ok THEN PeerTemplates ELSE <<>>)),
                             !.p.threw = FALSE, !.p.pc = "returned"])
    /\ UNCHANGED settings

\* the last await returns (lines 640, 730: notifyWebviewOfServerChanges;
\* line 689: readAndValidateMcpSettingsFile) or makes the operation throw
PublishReturns(p) ==
    /\ procs[p].pc = "notify"
    /\ \E ok \in BOOLEAN : Outcome(ok) /\ Resume(p, IF ok THEN "finish" ELSE "threw")
    /\ UNCHANGED settings

\* the promise of an operation that has ended is settled and dropped
Retire(p) ==
    /\ procs[p].pc \in {"done", "threw"}
    /\ procs' = Without(p)
    /\ transports' = Live(transports, connections, procs')
    /\ UNCHANGED router
    /\ UNCHANGED file
    /\ UNCHANGED <<connections, isConnecting, settings, fileWatchers, nextId, maxId, webview, faults,
                   lastCall>>

\* transport.onerror, lines 240-248, 300-308, 317-325
TransportError(id) ==
    LET i == findConnection(connections, transports[id].name) IN
    /\ Settled
    /\ ~transports[id].closeT
    /\ ~transports[id].closed
    /\ i # 0
    /\ Outcome(FALSE)
    /\ connections' = [connections EXCEPT ![i] =
            appendErrorMessage([connections[i] EXCEPT !.status = "disconnected"],
                               "transport error")]
    /\ procs' = [q \in 1..Len(procs) |-> Called(procs[q])]
    /\ UNCHANGED router
    /\ UNCHANGED file
    /\ UNCHANGED <<isConnecting, settings, fileWatchers, transports, nextId, maxId, webview, lastCall>>

\* A transport reports that it is closed: because close() was called on it,
\* or by itself (a failure).  The hub has set onclose for stdio transports
\* only (lines 250-256); connectToServer sets none for sse and streamableHttp
\* transports (lines 284-325), so their closure changes nothing in the hub
TransportClosed(id) ==
    LET i == findConnection(connections, transports[id].name) IN
    /\ Settled
    /\ ~transports[id].closed
    /\ Outcome(transports[id].closeT)
    /\ connections' = IF i # 0 /\ transports[id].kind = "stdio"
                      THEN [connections EXCEPT ![i].status = "disconnected"]
                      ELSE connections
    /\ transports' = Live([transports EXCEPT ![id].closed = TRUE], connections, procs)
    /\ procs' = [q \in 1..Len(procs) |-> Called(procs[q])]
    /\ UNCHANGED router
    /\ UNCHANGED file
    /\ UNCHANGED <<isConnecting, settings, fileWatchers, nextId, maxId, webview, lastCall>>

\* toggleServerDisabledRPC, lines 784-795: the file is rewritten
ToggleServerDisabledRPC(name, disabled) ==
    /\ Settled
    /\ Len(procs) < MaxProcs
    /\ name \in DOMAIN settings
    /\ settings' = [settings EXCEPT ![name].disabled = disabled]
    /\ file' = toggleServerDisabledWrite(file, name, disabled)
    /\ procs' = Append([q \in 1..Len(procs) |-> Disturbed(procs[q])],
                       [Idle EXCEPT !.kind = "toggle", !.source = "rpc", !.name = name,
                                    !.flag = disabled, !.pc = "written"])
    /\ UNCHANGED router
    /\ UNCHANGED <<connections, isConnecting, fileWatchers, transports, nextId, maxId, webview, faults,
                   lastCall>>

\* toggleServerDisabledRPC, lines 797-803: fs.writeFile returned
ToggleWritten(p) ==
    LET i == findConnection(connections, procs[p].name) IN
    /\ Settled
    /\ procs[p].pc = "written"
    /\ connections' = IF i # 0
                      THEN [connections EXCEPT ![i].disabled = procs[p].flag]
                      ELSE connections
    /\ procs' = [q \in 1..(Len(procs) - 1) |-> Disturbed(Without(p)[q])]
    /\ UNCHANGED router
    /\ UNCHANGED file
    /\ UNCHANGED <<isConnecting, settings, fileWatchers, transports, nextId, maxId, webview, faults,
                   lastCall>>

----------------------------------------------------------------------------
(* The invocation interface *)

\* the server names callers ask for
CallNames == Names \cup {"missing-server"}

\* readResource without the check of lines 825-827
readResourceUnchecked(cs, serverName) ==
    LET i == findConnection(cs, serverName) IN
    IF i = 0 THEN "ConnectionNotFound"
    ELSE IF cs[i].client = 0 THEN "TypeError"
    ELSE "request"

\* readResource, lines 820-838: what the call does with the registry cs
readResource(cs, serverName) ==
    LET i == findConnection(cs, serverName) IN
    IF i = 0 THEN "ConnectionNotFound"
    ELSE IF cs[i].disabled THEN "ServerDisabled"
    ELSE IF cs[i].client = 0 THEN "TypeError"
    ELSE "request"

\* callTool, lines 840-880: what the call does with the registry cs
callTool(cs, serverName) ==
    LET i == findConnection(cs, serverName) IN
    IF i = 0 THEN "ConnectionNotFound"
    ELSE IF cs[i].disabled THEN "ServerDisabled"
    ELSE IF cs[i].client = 0 THEN "TypeError"
    ELSE "request"

\* the request options take milliseconds
secondsToMs(seconds) == seconds * 1000

\* callTool, lines 852-860: the timeout of the request, from the snapshot
\* of the entry; the default when the snapshot does not pass the schema
callToolTimeout(cs, serverName) ==
    LET i == findConnection(cs, serverName) IN
    IF i = 0 THEN 0
    ELSE IF Parse(cs[i].config).timeout >= MIN_MCP_TIMEOUT_SECONDS
    THEN secondsToMs(Parse(cs[i].config).timeout)
    ELSE secondsToMs(DEFAULT_MCP_TIMEOUT_SECONDS)

\* a caller invokes readResource(serverName, uri)
ReadResource(serverName) ==
    /\ Settled
    /\ lastCall' = [op |-> "readResource", name |-> serverName, before |-> connections,
                    outcome |-> readResource(connections, serverName)]
    /\ UNCHANGED router
    /\ UNCHANGED file
    /\ UNCHANGED <<connections, isConnecting, settings, fileWatchers, transports, nextId, maxId, webview,
                   faults, procs>>

\* a caller invokes callTool(serverName, toolName, toolArguments)
CallTool(serverName) ==
    /\ Settled
    /\ lastCall' = [op |-> "callTool", name |-> serverName, before |-> connections,
                    outcome |-> callTool(connections, serverName),
                    timeout |-> callToolTimeout(connections, serverName)]
    /\ UNCHANGED router
    /\ UNCHANGED file
    /\ UNCHANGED <<connections, isConnecting, settings, fileWatchers, transports, nextId, maxId, webview,
                   faults, procs>>

\* the caller has the outcome
CallObserved ==
    /\ lastCall.op # "none"
    /\ lastCall' = NoCall
    /\ UNCHANGED router
    /\ UNCHANGED file
    /\ UNCHANGED <<connections, isConnecting, settings, fileWatchers, transports, nextId, maxId, webview,
                   faults, procs>>

----------------------------------------------------------------------------
(* The published order of the servers *)

\* the server names of the registries and key orders that are sorted
SortNames == Names \cup {"C"}

\* the key orders of a settings file: Object.keys(config.mcpServers), lines
\* 693-694 and 754: every name at most once
ServerOrders ==
    { o \in UNION { [1..n -> SortNames] : n \in 0..Cardinality(SortNames) } :
        \A i, j \in 1..Len(o) : o[i] = o[j] => i = j }

\* serverOrder.indexOf(name), lines 742-743: from 0, -1 when absent
indexOf(serverOrder, name) ==
    IF \E k \in 1..Len(serverOrder) : serverOrder[k] = name
    THEN (CHOOSE k \in 1..Len(serverOrder) :
             /\ serverOrder[k] = name
             /\ \A l \in 1..(k - 1) : serverOrder[l] # name) - 1
    ELSE -1

\* connection.server, line 746: the entry without its client and transport
server(c) == [f \in DOMAIN c \ {"client", "transport"} |-> c[f]]

\* the servers of the registry in the order of the registry
serversAsCreated(cs, serverOrder) == [i \in 1..Len(cs) |-> server(cs[i])]

\* [...].sort((a, b) => indexA - indexB), lines 740-745: Array.prototype.sort
\* is stable, entries with equal index keep their order
RECURSIVE sortByIndex(_, _)
sortByIndex(cs, serverOrder) ==
    IF cs = <<>> THEN <<>>
    ELSE LET sorted == sortByIndex(SubSeq(cs, 1, Len(cs) - 1), serverOrder)
             e == cs[Len(cs)]
             k == Cardinality({ i \in 1..Len(sorted) :
                      indexOf(serverOrder, sorted[i].name) <= indexOf(serverOrder, e.name) })
         IN  SubSeq(sorted, 1, k) \o <<e>> \o SubSeq(sorted, k + 1, Len(sorted))

\* getSortedMcpServers, lines 739-747
getSortedMcpServers(cs, serverOrder) ==
    LET sorted == sortByIndex(cs, serverOrder) IN
    [i \in 1..Len(sorted) |-> server(sorted[i])]

\* the hub sorts its servers by serverOrder for a caller (lines 695, 757)
GetSortedMcpServers(serverOrder) ==
    /\ Settled
    /\ lastCall' = [op |-> "getSortedMcpServers", name |-> serverOrder, before |-> connections,
                    outcome |-> getSortedMcpServers(connections, serverOrder)]
    /\ UNCHANGED router
    /\ UNCHANGED file
    /\ UNCHANGED <<connections, isConnecting, settings, fileWatchers, transports, nextId, maxId, webview,
                   faults, procs>>

----------------------------------------------------------------------------
(* The notification router *)

\* The notifications a peer sends, n being the text of their data: a log
\* message with no level and no logger, a log message with both, and a
\* notification of another method.  "" is an absent parameter.
Notifications(n) ==
    { [method |-> "notifications/message", level |-> "", logger |-> "", data |-> n],
      [method |-> "notifications/message", level |-> "error", logger |-> "srv", data |-> n],
      [method |-> "notifications/progress", level |-> "", logger |-> "", data |-> n] }

\* lines 377-385: params.level || "info", and the message with its logger
normalize(name, notification) ==
    [ serverName |-> name,
      level |-> IF notification.level = "" THEN "info" ELSE notification.level,
      message |-> IF notification.logger # ""
                  THEN <<"[", notification.logger, "] ", notification.data>>
                  ELSE <<notification.data>> ]

\* the handler of notifications/message, lines 374-400, and the fallback
\* handler of every other method, lines 419-427: the new pending list and
\* the calls of the callback
notificationHandler(name, notification, callback, pending) ==
    IF notification.method = "notifications/message"
    THEN IF callback
         THEN [ pending |-> pending, calls |-> <<normalize(name, notification)>> ]
         ELSE [ pending |-> Append(pending, normalize(name, notification)), calls |-> <<>> ]
    ELSE [ pending |-> pending, calls |-> <<>> ]

\* the client of connection object id, whose entry is connected, receives a
\* notification from its peer
NotificationArrives(id, notification) ==
    LET i == findConnection(connections, transports[id].name)
        h == notificationHandler(transports[id].name, notification,
                                 notificationCallback, pendingNotifications)
    IN  /\ Settled
        /\ Len(received) < MaxNotifications
        /\ i # 0 /\ connections[i].client = id /\ connections[i].status = "connected"
        /\ ~transports[id].closeC /\ ~transports[id].closed
        /\ received' = Append(received, [ notification |-> normalize(transports[id].name, notification),
                                          method |-> notification.method,
                                          consumer |-> notificationCallback ])
        /\ pendingNotifications' = h.pending
        /\ callbackCalls' = callbackCalls \o h.calls
        /\ UNCHANGED <<connections, isConnecting, settings, fileWatchers, transports, nextId,
                       maxId, webview, faults, lastCall, procs, notificationCallback, drained, file>>

\* setNotificationCallback, lines 1120-1123
SetNotificationCallback ==
    /\ Settled
    /\ notificationCallback' = TRUE
    /\ UNCHANGED <<connections, isConnecting, settings, fileWatchers, transports, nextId,
                   maxId, webview, faults, lastCall, procs, pendingNotifications, received,
                   callbackCalls, drained, file>>

\* clearNotificationCallback, lines 1128-1131
ClearNotificationCallback ==
    /\ Settled
    /\ notificationCallback' = FALSE
    /\ UNCHANGED <<connections, isConnecting, settings, fileWatchers, transports, nextId,
                   maxId, webview, faults, lastCall, procs, pendingNotifications, received,
                   callbackCalls, drained, file>>

\* getPendingNotifications with line 1112 left out
copyPendingNotifications(pending) == [ returned |-> pending, pending |-> pending ]

\* getPendingNotifications, lines 1105-1114: a copy is returned and the list
\* is replaced by an empty one
getPendingNotifications(pending) == [ returned |-> pending, pending |-> <<>> ]

\* a caller invokes getPendingNotifications()
GetPendingNotifications ==
    LET r == getPendingNotifications(pendingNotifications) IN
    /\ Settled
    /\ lastCall' = [op |-> "getPendingNotifications", name |-> "", before |-> pendingNotifications,
                    outcome |-> r.returned]
    /\ pendingNotifications' = r.pending
    /\ drained' = drained \o r.returned
    /\ UNCHANGED <<connections, isConnecting, settings, fileWatchers, transports, nextId,
                   maxId, webview, faults, procs, notificationCallback, received, callbackCalls, file>>

----------------------------------------------------------------------------
(* The settings file and its writers *)

\* the tool names callers toggle
ToolNames == {"t1", "t2"}

\* the lists of at most n tool names
ToolLists(n) == UNION { [1..k -> ToolNames] : k \in 0..n }

\* the loop of lines 947-957 (899-909 in the RPC variant): push a name that is
\* not in the list, splice out the first occurrence of one that is
RECURSIVE toggleEach(_, _, _)
toggleEach(autoApprove, toolNames, shouldAllow) ==
    IF toolNames = <<>> THEN autoApprove
    ELSE LET toolName == Head(toolNames)
             toolIndex == indexOf(autoApprove, toolName)
             next == IF shouldAllow /\ toolIndex = -1
                     THEN Append(autoApprove, toolName)
                     ELSE IF ~shouldAllow /\ toolIndex # -1
                     THEN SubSeq(autoApprove, 1, toolIndex)
                            \o SubSeq(autoApprove, toolIndex + 2, Len(autoApprove))
                     ELSE autoApprove
         IN  toggleEach(next, Tail(toolNames), shouldAllow)

\* toggleToolAutoApprove, lines 936-958: what is written to the file; threw
\* when the server is not a key of mcpServers (line 942 reads a property of
\* undefined) and nothing is written
toggleToolAutoApprove(mcpServers, serverName, toolNames, shouldAllow) ==
    IF ~Has(mcpServers, serverName)
    THEN [threw |-> TRUE, mcpServers |-> mcpServers]
    ELSE LET config == Get(mcpServers, serverName)
             initialized == IF Has(config, "autoApprove") THEN config
                            ELSE Put(config, "autoApprove", <<>>)
             autoApprove == toggleEach(Get(initialized, "autoApprove"), toolNames, shouldAllow)
         IN  [threw |-> FALSE,
              mcpServers |-> Put(mcpServers, serverName,
                                 Put(initialized, "autoApprove", autoApprove))]

\* lines 962-968: the cached tools with their flags computed again
reannotated(tools, autoApprove) ==
    [i \in 1..Len(tools) |-> [tools[i] EXCEPT !.autoApprove = tools[i].name \in Range(autoApprove)]]

\* a caller invokes toggleToolAutoApprove(serverName, toolNames, shouldAllow)
\* or its RPC variant (lines 889-932, the same but for the publication)
ToggleToolAutoApprove(serverName, toolNames, shouldAllow) ==
    LET r == toggleToolAutoApprove(file, serverName, toolNames, shouldAllow)
        i == findConnection(connections, serverName)
    IN  /\ Settled
        /\ file' = r.mcpServers
        /\ connections' =
              IF ~r.threw /\ i # 0 /\ connections[i].tools # Undefined
              THEN [connections EXCEPT ![i].tools =
                       Some(reannotated(connections[i].tools[1],
                                        autoApproveConfig(r.mcpServers, serverName)))]
              ELSE connections
        /\ lastCall' = [op |-> "toggleToolAutoApprove", name |-> serverName, before |-> file,
                        outcome |-> IF r.threw THEN "TypeError" ELSE "written",
                        toolNames |-> toolNames, shouldAllow |-> shouldAllow]
        /\ UNCHANGED router
        /\ UNCHANGED <<isConnecting, settings, fileWatchers, transports, nextId, maxId, webview, faults,
                       procs>>

\* the timeouts callers ask for: one below the minimum, one above
TimeoutPool == {0, 120}

\* as UpdateServerTimeoutRPC, without the check of lines 1064-1067
UpdateServerTimeoutUnchecked(serverName, timeout) ==
    IF serverName \notin DOMAIN settings
    THEN /\ Settled
         /\ lastCall' = [op |-> "updateServerTimeoutRPC", name |-> serverName,
                         before |-> connections, outcome |-> "NotFound"]
         /\ UNCHANGED router
         /\ UNCHANGED <<connections, isConnecting, settings, fileWatchers, transports, nextId,
                        maxId, webview, faults, procs, file>>
    ELSE /\ file' = updateServerTimeoutWrite(file, serverName, timeout)
         /\ settings' = [settings EXCEPT ![serverName].timeout = timeout]
         /\ Begin([Idle EXCEPT !.kind = "reconcile", !.source = "rpc", !.desired = settings',
                               !.start = connections, !.pc = "reconcile"])
         /\ UNCHANGED faults

\* a caller invokes updateServerTimeoutRPC(serverName, timeout), lines
\* 1061-1099: a timeout the schema refuses and a server the file does not
\* have make it throw; otherwise the file is written and the call runs
\* updateServerConnectionsRPC (lines 550-595) with what it wrote
UpdateServerTimeoutRPC(serverName, timeout) ==
    IF timeout < MIN_MCP_TIMEOUT_SECONDS \/ serverName \notin DOMAIN settings
    THEN /\ Settled
         /\ lastCall' = [op |-> "updateServerTimeoutRPC", name |-> serverName,
                         before |-> connections,
                         outcome |-> IF timeout < MIN_MCP_TIMEOUT_SECONDS
                                     THEN "InvalidTimeout" ELSE "NotFound"]
         /\ UNCHANGED router
         /\ UNCHANGED <<connections, isConnecting, settings, fileWatchers, transports, nextId,
                        maxId, webview, faults, procs, file>>
    ELSE /\ file' = updateServerTimeoutWrite(file, serverName, timeout)
         /\ settings' = [settings EXCEPT ![serverName].timeout = timeout]
         /\ Begin([Idle EXCEPT !.kind = "reconcile", !.source = "rpc", !.desired = settings',
                               !.start = connections, !.pc = "reconcile"])
         /\ UNCHANGED faults

\* a caller invokes addRemoteServer(serverName, serverUrl), lines 980-1025:
\* a name the file has makes it throw; otherwise the file is written and the
\* call runs updateServerConnectionsRPC with the validated servers
AddRemoteServer(serverName, serverUrl) ==
    IF Has(file, serverName)
    THEN /\ Settled
         /\ lastCall' = [op |-> "addRemoteServer", name |-> serverName,
                         before |-> connections, outcome |-> "AlreadyExists"]
         /\ UNCHANGED router
         /\ UNCHANGED <<connections, isConnecting, settings, fileWatchers, transports, nextId,
                        maxId, webview, faults, procs, file>>
    ELSE /\ file' = addRemoteServerWrite(file, serverName, serverUrl)
         /\ settings' = desiredServers(file')
         /\ Begin([Idle EXCEPT !.kind = "reconcile", !.source = "rpc", !.desired = settings',
                               !.start = connections, !.pc = "reconcile"])
         /\ UNCHANGED faults

\* a caller invokes deleteServerRPC(serverName), lines 1032-1059: for a name
\* the file has, the file is written without it and the call runs
\* updateServerConnectionsRPC; otherwise the call returns the list
DeleteServerRPC(serverName) ==
    IF ~Has(file, serverName)
    THEN /\ Settled
         /\ lastCall' = [op |-> "deleteServerRPC", name |-> serverName,
                         before |-> connections, outcome |-> "returned"]
         /\ UNCHANGED router
         /\ UNCHANGED <<connections, isConnecting, settings, fileWatchers, transports, nextId,
                        maxId, webview, faults, procs, file>>
    ELSE /\ file' = deleteServerWrite(file, serverName)
         /\ settings' = desiredServers(file')
         /\ Begin([Idle EXCEPT !.kind = "reconcile", !.source = "rpc", !.desired = settings',
                               !.start = connections, !.pc = "reconcile"])
         /\ UNCHANGED faults

\* as SettingsFileChanged, with the pass run on whatever the file holds
SettingsFileChangedUnchecked(content) ==
    /\ file' = content
    /\ settings' = desiredServers(content)
    /\ Begin([Idle EXCEPT !.kind = "reconcile", !.source = "internal", !.desired = settings',
                          !.start = connections, !.pc = "reconcile"])
    /\ UNCHANGED faults

\* the settings file is written with content and the hub handles it:
\* initializeMcpServers (lines 176-181) and the onResponse handler of
\* watchMcpSettingsFile (lines 146-161) read and validate the file and run
\* updateServerConnections only when that returned settings
SettingsFileChanged(content) ==
    IF settingsValid(content)
    THEN /\ file' = content
         /\ settings' = desiredServers(content)
         /\ Begin([Idle EXCEPT !.kind = "reconcile", !.source = "internal",
                               !.desired = settings', !.start = connections,
                               !.pc = "reconcile"])
         /\ UNCHANGED faults
    ELSE /\ Settled
         /\ file' = content
         /\ lastCall' = [op |-> "settingsChanged", name |-> "", before |-> connections,
                         outcome |-> "ignored"]
         /\ UNCHANGED router
         /\ UNCHANGED <<connections, isConnecting, settings, fileWatchers, transports, nextId,
                        maxId, webview, faults, procs>>

\* getServers, lines 79-83: the servers of the entries that are not disabled
getServers(cs) ==
    LET enabled == SelectSeq(cs, LAMBDA conn : ~conn.disabled) IN
    [i \in 1..Len(enabled) |-> server(enabled[i])]

\* a caller reads the server list
GetServers ==
    /\ Settled
    /\ lastCall' = [op |-> "getServers", name |-> "", before |-> connections,
                    outcome |-> getServers(connections)]
    /\ UNCHANGED router
    /\ UNCHANGED <<connections, isConnecting, settings, fileWatchers, transports, nextId,
                   maxId, webview, faults, procs, file>>

----------------------------------------------------------------------------
(* Specification *)

\* the hub after construction: no entry, no watcher, nothing in flight
Constructed ==
    /\ connections = <<>>
    /\ isConnecting = FALSE
    /\ settings = NoServers
    /\ fileWatchers = {}
    /\ transports = NoTransports
    /\ nextId = 1
    /\ lastCall = NoCall
    /\ procs = <<>>
    /\ pendingNotifications = <<>>
    /\ notificationCallback = FALSE
    /\ received = <<>>
    /\ callbackCalls = <<>>
    /\ drained = <<>>
    /\ file = <<>>
    /\ ModuleLoaded

\* no operation is in flight
Quiescent == procs = <<>>

\* The calling pattern section 5 of the spec expects: operations are started
\* one at a time, each after the one before has ended.  The settings file
\* names server A.
Init == Constructed /\ maxId = MaxConns /\ faults = 0

Next ==
    \/ Quiescent /\ \E d \in SettingsPool({"A"}) \cup {settings} : SettingsChanged(d)
    \/ Quiescent /\ WatchedFileChanged("A")
    \/ Quiescent /\ RestartConnectionRPC("A")
    \/ Quiescent /\ \E disabled \in BOOLEAN : ToggleServerDisabledRPC("A", disabled)
    \/ \E p \in 1..Len(procs) : DelayElapsed(p)
    \/ \E p \in 1..Len(procs) : TransportCloseReturns(p)
    \/ \E p \in 1..Len(procs) : ClientCloseReturns(p)
    \/ \E p \in 1..Len(procs) : TransportStartReturns(p)
    \/ \E p \in 1..Len(procs) : ClientConnectReturns(p)
    \/ \E p \in 1..Len(procs) : ToolsListReturns(p)
    \/ \E p \in 1..Len(procs) : ResourcesListReturns(p)
    \/ \E p \in 1..Len(procs) : TemplatesListReturns(p)
    \/ \E p \in 1..Len(procs) : PublishReturns(p)
    \/ \E p \in 1..Len(procs) : ToggleWritten(p)
    \/ \E p \in 1..Len(procs) : Retire(p)
    \/ \E id \in DOMAIN transports : TransportError(id)
    \/ \E id \in DOMAIN transports : TransportClosed(id)

Spec == Init /\ [][Next]_vars

\* Reconcile passes, one at a time, over settings files that name the
\* servers A and B
NextPair ==
    \/ Quiescent /\ \E d \in SettingsPool(Names) \cup {settings} : SettingsChanged(d)
    \/ \E p \in 1..Len(procs) : TransportCloseReturns(p)
    \/ \E p \in 1..Len(procs) : ClientCloseReturns(p)
    \/ \E p \in 1..Len(procs) : TransportStartReturns(p)
    \/ \E p \in 1..Len(procs) : ClientConnectReturns(p)
    \/ \E p \in 1..Len(procs) : ToolsListReturns(p)
    \/ \E p \in 1..Len(procs) : ResourcesListReturns(p)
    \/ \E p \in 1..Len(procs) : TemplatesListReturns(p)
    \/ \E p \in 1..Len(procs) : PublishReturns(p)
    \/ \E p \in 1..Len(procs) : Retire(p)
    \/ \E id \in DOMAIN transports : TransportError(id)
    \/ \E id \in DOMAIN transports : TransportClosed(id)

SpecPair == Init /\ [][NextPair]_vars

\* Nothing in the hub serializes its operations: the settings watcher, the
\* file watchers and the RPC entry points start one whenever their event
\* arrives.  Here reconcile passes and file-watcher restarts overlap; the
\* settings file names server A and no call fails.
InitOverlap == Constructed /\ maxId = MaxConnsOverlap /\ faults = MaxFaults

NextOverlap ==
    \/ \E d \in SettingsPool({"A"}) : SettingsChanged(d)
    \/ WatchedFileChanged("A")
    \/ \E p \in 1..Len(procs) : DelayElapsed(p)
    \/ \E p \in 1..Len(procs) : TransportCloseReturns(p)
    \/ \E p \in 1..Len(procs) : ClientCloseReturns(p)
    \/ \E p \in 1..Len(procs) : TransportStartReturns(p)
    \/ \E p \in 1..Len(procs) : ClientConnectReturns(p)
    \/ \E p \in 1..Len(procs) : ToolsListReturns(p)
    \/ \E p \in 1..Len(procs) : ResourcesListReturns(p)
    \/ \E p \in 1..Len(procs) : TemplatesListReturns(p)
    \/ \E p \in 1..Len(procs) : PublishReturns(p)
    \/ \E p \in 1..Len(procs) : Retire(p)
    \/ \E id \in DOMAIN transports : TransportClosed(id)

SpecOverlap == InitOverlap /\ [][NextOverlap]_vars

\* The invocation interface in use between operations on server A that are
\* started one at a time; no call of the hub fails
InitCalls == Constructed /\ maxId = MaxConns /\ faults = MaxFaults

NextCalls ==
    \/ Quiescent /\ \E d \in SettingsPool({"A"}) \cup {settings} : SettingsChanged(d)
    \/ Quiescent /\ WatchedFileChanged("A")
    \/ Quiescent /\ RestartConnectionRPC("A")
    \/ Quiescent /\ \E disabled \in BOOLEAN : ToggleServerDisabledRPC("A", disabled)
    \/ \E p \in 1..Len(procs) : DelayElapsed(p)
    \/ \E p \in 1..Len(procs) : TransportCloseReturns(p)
    \/ \E p \in 1..Len(procs) : ClientCloseReturns(p)
    \/ \E p \in 1..Len(procs) : TransportStartReturns(p)
    \/ \E p \in 1..Len(procs) : ClientConnectReturns(p)
    \/ \E p \in 1..Len(procs) : ToolsListReturns(p)
    \/ \E p \in 1..Len(procs) : ResourcesListReturns(p)
    \/ \E p \in 1..Len(procs) : TemplatesListReturns(p)
    \/ \E p \in 1..Len(procs) : PublishReturns(p)
    \/ \E p \in 1..Len(procs) : ToggleWritten(p)
    \/ \E p \in 1..Len(procs) : Retire(p)
    \/ \E id \in DOMAIN transports : TransportClosed(id)
    \/ \E serverName \in CallNames : ReadResource(serverName)
    \/ \E serverName \in CallNames : CallTool(serverName)
    \/ CallObserved

SpecCalls == InitCalls /\ [][NextCalls]_vars

\* The registries getSortedMcpServers is applied to: up to MaxSorted entries
\* of disabled servers, created in any order of their names; every key order
\* of the settings file
Registries ==
    UNION { { [i \in 1..n |-> DisabledConnection(i, f[i], Cfg("stdio", TRUE, 60, "main.py"))] :
                f \in [1..n -> SortNames] } : n \in 0..MaxSorted }

InitSorted ==
    /\ connections \in Registries
    /\ isConnecting = FALSE
    /\ settings = NoServers
    /\ fileWatchers = {}
    /\ transports = NoTransports
    /\ nextId = Len(connections) + 1
    /\ maxId = MaxSorted
    /\ ModuleLoaded
    /\ faults = MaxFaults
    /\ lastCall = NoCall
    /\ procs = <<>>
    /\ pendingNotifications = <<>>
    /\ notificationCallback = FALSE
    /\ received = <<>>
    /\ callbackCalls = <<>>
    /\ drained = <<>>
    /\ file = <<>>

NextSorted ==
    \/ \E serverOrder \in ServerOrders : GetSortedMcpServers(serverOrder)
    \/ CallObserved

SpecSorted == InitSorted /\ [][NextSorted]_vars

\* The router with server A connected, as a reconcile pass leaves it: the
\* peer sends notifications while the consumer registers and unregisters its
\* callback and drains the pending list
InitNotify ==
    LET config == Cfg("stdio", FALSE, 60, "build/index.js") IN
    /\ connections = << [ NewConnection(1, "A", config) EXCEPT
                             !.status = "connected",
                             !.tools = Some(annotated(PeerTools, <<>>)),
                             !.resources = Some(PeerResources),
                             !.resourceTemplates = Some(PeerTemplates) ] >>
    /\ isConnecting = FALSE
    /\ settings = [n \in {"A"} |-> config]
    /\ fileWatchers = {"A"}
    /\ transports = [i \in {1} |-> NewTransport("A", config)]
    /\ nextId = 2
    /\ maxId = MaxConns
    /\ ModuleLoaded
    /\ faults = MaxFaults
    /\ lastCall = NoCall
    /\ procs = <<>>
    /\ pendingNotifications = <<>>
    /\ notificationCallback = FALSE
    /\ received = <<>>
    /\ callbackCalls = <<>>
    /\ drained = <<>>
    /\ file = <<>>

NextNotify ==
    \/ \E notification \in Notifications(Len(received) + 1) : NotificationArrives(1, notification)
    \/ SetNotificationCallback
    \/ ClearNotificationCallback
    \/ GetPendingNotifications
    \/ CallObserved

SpecNotify == InitNotify /\ [][NextNotify]_vars

\* The settings files a behaviour of the writers starts with.  Server A is
\* a stdio server, with or without a timeout and an autoApprove list (any
\* list a user can have typed, a name twice included); server B, when the
\* file has it, is a disabled remote server, before or after A.
FilePool ==
    LET As == { <<<<"command", "node">>, <<"args", "build/index.js">>>> \o t \o a :
                  t \in { <<>>, <<<<"timeout", 60>>>> },
                  a \in { <<>> } \cup { <<<<"autoApprove", l>>>> : l \in ToolLists(MaxApprove) } }
        B == <<"B", <<<<"url", "http://b">>, <<"disabled", TRUE>>>>>>
    IN  UNION { { <<<<"A", c>>>>, <<B, <<"A", c>>>>, <<<<"A", c>>, B>> } : c \in As }

\* the hub as its reconcile pass leaves it for the file: A connected, its
\* tools annotated from the file, B disabled
InitFile ==
    LET configA == desiredConfig(Get(file, "A"))
        configB == Cfg("sse", TRUE, DEFAULT_MCP_TIMEOUT_SECONDS, "")
        entryA == [ NewConnection(1, "A", configA) EXCEPT
                       !.status = "connected",
                       !.tools = Some(annotated(PeerTools, autoApproveConfig(file, "A"))),
                       !.resources = Some(PeerResources),
                       !.resourceTemplates = Some(PeerTemplates) ]
    IN  /\ file \in FilePool
        /\ connections = IF Has(file, "B")
                         THEN <<entryA, DisabledConnection(2, "B", configB)>>
                         ELSE <<entryA>>
        /\ isConnecting = FALSE
        /\ settings = IF Has(file, "B")
                      THEN [n \in {"A", "B"} |-> IF n = "A" THEN configA ELSE configB]
                      ELSE [n \in {"A"} |-> configA]
        /\ fileWatchers = {"A"}
        /\ transports = [i \in {1} |-> NewTransport("A", configA)]
        /\ nextId = Len(connections) + 1
        /\ maxId = MaxConns
        /\ ModuleLoaded
        /\ faults = MaxFaults
        /\ lastCall = NoCall
        /\ procs = <<>>
        /\ pendingNotifications = <<>>
        /\ notificationCallback = FALSE
        /\ received = <<>>
        /\ callbackCalls = <<>>
        /\ drained = <<>>

NextFile ==
    \/ \E serverName \in CallNames, toolNames \in ToolLists(2) \ {<<>>}, shouldAllow \in BOOLEAN :
          ToggleToolAutoApprove(serverName, toolNames, shouldAllow)
    \/ CallObserved

SpecFile == InitFile /\ [][NextFile]_vars

\* Timeout updates and tool calls: server A, operations started one at a
\* time, no call of the hub fails
InitTimeout == Constructed /\ maxId = MaxConns /\ faults = MaxFaults

NextTimeout ==
    \/ Quiescent /\ \E d \in SettingsPool({"A"}) : SettingsChanged(d)
    \/ Quiescent /\ \E serverName \in CallNames, timeout \in TimeoutPool :
                        UpdateServerTimeoutRPC(serverName, timeout)
    \/ \E p \in 1..Len(procs) : TransportCloseReturns(p)
    \/ \E p \in 1..Len(procs) : ClientCloseReturns(p)
    \/ \E p \in 1..Len(procs) : TransportStartReturns(p)
    \/ \E p \in 1..Len(procs) : ClientConnectReturns(p)
    \/ \E p \in 1..Len(procs) : ToolsListReturns(p)
    \/ \E p \in 1..Len(procs) : ResourcesListReturns(p)
    \/ \E p \in 1..Len(procs) : TemplatesListReturns(p)
    \/ \E p \in 1..Len(procs) : PublishReturns(p)
    \/ \E p \in 1..Len(procs) : Retire(p)
    \/ \E id \in DOMAIN transports : TransportClosed(id)
    \/ \E serverName \in CallNames : CallTool(serverName)
    \/ CallObserved

SpecTimeout == InitTimeout /\ [][NextTimeout]_vars

\* The settings writers: the hub after construction with a settings file of
\* server A, with or without server B; operations started one at a time, no
\* call of the hub fails
WritersPool ==
    LET A == <<"A", <<<<"command", "node">>, <<"args", "build/index.js">>>>>>
        B == <<"B", <<<<"url", "http://b">>, <<"disabled", TRUE>>>>>>
    IN  { <<A>>, <<A, B>>, <<B, A>> }

InitWriters ==
    /\ file \in WritersPool
    /\ connections = <<>>
    /\ isConnecting = FALSE
    /\ settings = desiredServers(file)
    /\ fileWatchers = {}
    /\ transports = NoTransports
    /\ nextId = 1
    /\ maxId = MaxConns
    /\ ModuleLoaded
    /\ faults = MaxFaults
    /\ lastCall = NoCall
    /\ procs = <<>>
    /\ pendingNotifications = <<>>
    /\ notificationCallback = FALSE
    /\ received = <<>>
    /\ callbackCalls = <<>>
    /\ drained = <<>>

NextWriters ==
    \/ Quiescent /\ SettingsChanged(desiredServers(file))
    \/ Quiescent /\ \E name \in Names, disabled \in BOOLEAN :
                        ToggleServerDisabledRPC(name, disabled)
    \/ Quiescent /\ \E serverName \in Names, timeout \in TimeoutPool :
                        UpdateServerTimeoutRPC(serverName, timeout)
    \/ Quiescent /\ \E serverName \in Names : AddRemoteServer(serverName, "http://b")
    \/ Quiescent /\ \E serverName \in Names : DeleteServerRPC(serverName)
    \/ Quiescent /\ \E serverName \in Names, shouldAllow \in BOOLEAN :
                        ToggleToolAutoApprove(serverName, <<"t1">>, shouldAllow)
    \/ \E p \in 1..Len(procs) : ToggleWritten(p)
    \/ \E p \in 1..Len(procs) : TransportCloseReturns(p)
    \/ \E p \in 1..Len(procs) : ClientCloseReturns(p)
    \/ \E p \in 1..Len(procs) : TransportStartReturns(p)
    \/ \E p \in 1..Len(procs) : ClientConnectReturns(p)
    \/ \E p \in 1..Len(procs) : ToolsListReturns(p)
    \/ \E p \in 1..Len(procs) : ResourcesListReturns(p)
    \/ \E p \in 1..Len(procs) : TemplatesListReturns(p)
    \/ \E p \in 1..Len(procs) : PublishReturns(p)
    \/ \E p \in 1..Len(procs) : Retire(p)
    \/ CallObserved

SpecWriters == InitWriters /\ [][NextWriters]_vars

\* The settings file under edit: the hub after construction with a file of
\* server A; the file is written with valid and invalid contents, one
\* operation at a time, no call of the hub fails
EditPool ==
    LET A(rest) == <<<<"A", <<<<"command", "node">>, <<"args", "build/index.js">>>> \o rest>>>>
    IN  { A(<<>>), A(<<<<"autoApprove", <<"t1">>>>>>), A(<<<<"timeout", 120>>>>),
          A(<<<<"timeout", 0>>>>), A(<<<<"timeout", 0>>, <<"autoApprove", <<"t1">>>>>>),
          Malformed }

InitEdit ==
    /\ file \in { content \in EditPool : settingsValid(content) }
    /\ connections = <<>>
    /\ isConnecting = FALSE
    /\ settings = NoServers
    /\ fileWatchers = {}
    /\ transports = NoTransports
    /\ nextId = 1
    /\ maxId = MaxConns
    /\ ModuleLoaded
    /\ faults = MaxFaults
    /\ lastCall = NoCall
    /\ procs = <<>>
    /\ pendingNotifications = <<>>
    /\ notificationCallback = FALSE
    /\ received = <<>>
    /\ callbackCalls = <<>>
    /\ drained = <<>>

NextEdit ==
    \/ Quiescent /\ \E content \in EditPool : SettingsFileChanged(content)
    \/ \E p \in 1..Len(procs) : TransportCloseReturns(p)
    \/ \E p \in 1..Len(procs) : ClientCloseReturns(p)
    \/ \E p \in 1..Len(procs) : TransportStartReturns(p)
    \/ \E p \in 1..Len(procs) : ClientConnectReturns(p)
    \/ \E p \in 1..Len(procs) : ToolsListReturns(p)
    \/ \E p \in 1..Len(procs) : ResourcesListReturns(p)
    \/ \E p \in 1..Len(procs) : TemplatesListReturns(p)
    \/ \E p \in 1..Len(procs) : PublishReturns(p)
    \/ \E p \in 1..Len(procs) : Retire(p)
    \/ GetServers
    \/ CallObserved

SpecEdit == InitEdit /\ [][NextEdit]_vars

\* the registry has not been reconciled with the settings file as it is: a
\* server of the file has no entry made from its configuration
Unreconciled ==
    \E name \in DOMAIN settings :
        \A i \in 1..Len(connections) :
            connections[i].name = name => connections[i].config # Stringify(settings[name])

\* the host's watch service reports the change of the settings file (lines
\* 146-161): the hub runs updateServerConnections with what the file holds
SettingsChangeEvent == Quiescent /\ Unreconciled /\ SettingsChanged(settings)

\* Disabling and enabling server A: toggles, each followed by the pass that
\* the change of the file triggers, one operation at a time; calls of the
\* hub can fail, and every awaited call returns
InitDisable ==
    /\ connections = <<>>
    /\ isConnecting = FALSE
    /\ fileWatchers = {}
    /\ transports = NoTransports
    /\ nextId = 1
    /\ lastCall = NoCall
    /\ procs = <<>>
    /\ pendingNotifications = <<>>
    /\ notificationCallback = FALSE
    /\ received = <<>>
    /\ callbackCalls = <<>>
    /\ drained = <<>>
    /\ file = <<>>
    /\ maxId = MaxConns
    /\ ModuleLoaded
    /\ faults = 0
    /\ settings = [n \in {"A"} |-> Cfg("stdio", FALSE, DEFAULT_MCP_TIMEOUT_SECONDS,
                                       "build/index.js")]

NextDisable ==
    \/ /\ Quiescent /\ ~Unreconciled /\ nextId <= maxId
       /\ \E disabled \in BOOLEAN : ToggleServerDisabledRPC("A", disabled)
    \/ Quiescent /\ ~Unreconciled /\ nextId <= maxId /\ WatchedFileChanged("A")
    \/ SettingsChangeEvent
    \/ \E p \in 1..Len(procs) : ToggleWritten(p)
    \/ \E p \in 1..Len(procs) : DelayElapsed(p)
    \/ \E p \in 1..Len(procs) : TransportCloseReturns(p)
    \/ \E p \in 1..Len(procs) : ClientCloseReturns(p)
    \/ \E p \in 1..Len(procs) : TransportStartReturns(p)
    \/ \E p \in 1..Len(procs) : ClientConnectReturns(p)
    \/ \E p \in 1..Len(procs) : ToolsListReturns(p)
    \/ \E p \in 1..Len(procs) : ResourcesListReturns(p)
    \/ \E p \in 1..Len(procs) : TemplatesListReturns(p)
    \/ \E p \in 1..Len(procs) : PublishReturns(p)
    \/ \E p \in 1..Len(procs) : Retire(p)
    \/ \E id \in DOMAIN transports : TransportClosed(id)

\* what the event loop and the peers do without being asked
ProgressDisable ==
    \/ SettingsChangeEvent
    \/ \E p \in 1..Len(procs) :
          \/ ToggleWritten(p)
          \/ DelayElapsed(p)
          \/ TransportCloseReturns(p)
          \/ ClientCloseReturns(p)
          \/ TransportStartReturns(p)
          \/ ClientConnectReturns(p)
          \/ ToolsListReturns(p)
          \/ ResourcesListReturns(p)
          \/ TemplatesListReturns(p)
          \/ PublishReturns(p)
          \/ Retire(p)

SpecDisable == InitDisable /\ [][NextDisable]_vars /\ WF_vars(ProgressDisable)

\* deleteConnection awaits close() of the transport, then of the client: a
\* close() whose promise never settles leaves the operation suspended at that
\* await for good
CloseHangs(p) ==
    /\ procs[p].pc \in {"closeT", "closeC"}
    /\ procs' = [procs EXCEPT ![p].pc = "hung"]
    /\ UNCHANGED router
    /\ UNCHANGED file
    /\ UNCHANGED <<connections, isConnecting, settings, fileWatchers, transports, nextId,
                   maxId, webview, faults, lastCall>>

NextHang ==
    \/ /\ Quiescent /\ ~Unreconciled /\ nextId <= maxId
       /\ \E disabled \in BOOLEAN : ToggleServerDisabledRPC("A", disabled)
    \/ SettingsChangeEvent
    \/ \E p \in 1..Len(procs) : ToggleWritten(p)
    \/ \E p \in 1..Len(procs) : TransportCloseReturns(p)
    \/ \E p \in 1..Len(procs) : ClientCloseReturns(p)
    \/ \E p \in 1..Len(procs) : CloseHangs(p)
    \/ \E p \in 1..Len(procs) : TransportStartReturns(p)
    \/ \E p \in 1..Len(procs) : ClientConnectReturns(p)
    \/ \E p \in 1..Len(procs) : ToolsListReturns(p)
    \/ \E p \in 1..Len(procs) : ResourcesListReturns(p)
    \/ \E p \in 1..Len(procs) : TemplatesListReturns(p)
    \/ \E p \in 1..Len(procs) : PublishReturns(p)
    \/ \E p \in 1..Len(procs) : Retire(p)
    \/ \E id \in DOMAIN transports : TransportClosed(id)

SpecHang == InitDisable /\ [][NextHang]_vars /\ WF_vars(ProgressDisable)

\* The hub is disposed at any moment, also while a pass is in flight; the
\* settings watcher, disposed with it, delivers nothing afterwards.
NextDispose ==
    \/ /\ Quiescent
       /\ \E d \in SettingsPool({"A"}) : SettingsChanged(d)
    \/ Dispose
    \/ \E p \in 1..Len(procs) : TransportCloseReturns(p)
    \/ \E p \in 1..Len(procs) : ClientCloseReturns(p)
    \/ \E p \in 1..Len(procs) : TransportStartReturns(p)
    \/ \E p \in 1..Len(procs) : ClientConnectReturns(p)
    \/ \E p \in 1..Len(procs) : ToolsListReturns(p)
    \/ \E p \in 1..Len(procs) : ResourcesListReturns(p)
    \/ \E p \in 1..Len(procs) : TemplatesListReturns(p)
    \/ \E p \in 1..Len(procs) : PublishReturns(p)
    \/ \E p \in 1..Len(procs) : Retire(p)

SpecDispose == Init /\ [][NextDispose]_vars

----------------------------------------------------------------------------
(* The remote-mode webview client (src/unnamed/part_000), in remote mode   *)
(* with a WebSocket endpoint.  A socket is a record of its readyState and  *)
(* of whether its 5 s connection timer is still armed.                     *)

\* initializeRemoteMode, lines 89-187: nothing when a promise is held (lines
\* 95-97), else a new WebSocket with its handlers and timer, and the promise
initializeRemoteMode ==
    IF wsConnectionPromise
    THEN UNCHANGED <<wsConnectionPromise, sockets>>
    ELSE /\ sockets' = Append(sockets, [readyState |-> "CONNECTING",
                                         connectionTimeout |-> TRUE])
         /\ wsConnectionPromise' = TRUE

\* a caller invokes waitForWebSocketConnection, lines 59-86
WaitForWebSocketConnection ==
    /\ Len(sockets) < MaxSockets
    /\ IF wsConnectionReady
       THEN UNCHANGED <<wsConnectionPromise, sockets>>
       ELSE initializeRemoteMode
    /\ UNCHANGED <<wsConnectionReady, reconnects, remoteWebsocket>>
    /\ UNCHANGED hub

\* the connection timer of socket i fires, lines 122-130
ConnectionTimeout(i) ==
    /\ sockets[i].connectionTimeout
    /\ IF sockets[i].readyState = "CONNECTING"
       THEN /\ sockets' = [sockets EXCEPT ![i] = [readyState |-> "CLOSING",
                                                  connectionTimeout |-> FALSE]]
            /\ wsConnectionReady' = FALSE
            /\ wsConnectionPromise' = FALSE
       ELSE /\ sockets' = [sockets EXCEPT ![i].connectionTimeout = FALSE]
            /\ UNCHANGED <<wsConnectionReady, wsConnectionPromise>>
    /\ UNCHANGED <<reconnects, remoteWebsocket>>
    /\ UNCHANGED hub

\* socket i is connected: ws.onopen, lines 132-138
OnOpen(i) ==
    /\ sockets[i].readyState = "CONNECTING"
    /\ sockets' = [sockets EXCEPT ![i] = [readyState |-> "OPEN", connectionTimeout |-> FALSE]]
    /\ remoteWebsocket' = i
    /\ wsConnectionReady' = TRUE
    /\ UNCHANGED <<wsConnectionPromise, reconnects>>
    /\ UNCHANGED hub

\* socket i has failed or has been closed, by the peer or by close(): the
\* browser dispatches the error event, if any, and then the close event, in
\* one task: ws.onerror, lines 140-146, and ws.onclose, lines 158-169
OnClose(i) ==
    /\ sockets[i].readyState \in {"CONNECTING", "OPEN", "CLOSING"}
    /\ sockets' = [sockets EXCEPT ![i] = [readyState |-> "CLOSED",
                                          connectionTimeout |-> FALSE]]
    /\ remoteWebsocket' = 0
    /\ wsConnectionReady' = FALSE
    /\ wsConnectionPromise' = FALSE
    /\ reconnects' = reconnects + 1
    /\ UNCHANGED hub

\* a reconnect timer fires, lines 165-168: initializeRemoteMode
Reconnect ==
    /\ reconnects > 0
    /\ Len(sockets) < MaxSockets
    /\ reconnects' = reconnects - 1
    /\ initializeRemoteMode
    /\ UNCHANGED <<wsConnectionReady, remoteWebsocket>>
    /\ UNCHANGED hub

NextRemote ==
    \/ WaitForWebSocketConnection
    \/ Reconnect
    \/ \E i \in 1..Len(sockets) : ConnectionTimeout(i)
    \/ \E i \in 1..Len(sockets) : OnOpen(i)
    \/ \E i \in 1..Len(sockets) : OnClose(i)

SpecRemote == Init /\ [][NextRemote]_vars

----------------------------------------------------------------------------
(* Properties *)

\* the operations that have just ended
Ended == { p \in 1..Len(procs) : procs[p].pc \in {"done", "threw"} }

\* the operations that have just ended and ran alone: no other operation of
\* the hub was in flight at any time between their start and their end
Alone == { p \in Ended : procs[p].solo /\ Len(procs) = 1 }

\* the reconcile passes that have just ended and ran alone
SoloPasses == { p \in Alone : procs[p].kind = "reconcile" }

\* the positions of the entries of cs named name
Named(cs, name) == { i \in 1..Len(cs) : cs[i].name = name }

\* the ids of the entries of cs
Ids(cs) == { cs[i].id : i \in 1..Len(cs) }

\* C1: the registry never holds two entries with the same server name.
C1_OneEntryPerName ==
    \A i, j \in 1..Len(connections) :
        connections[i].name = connections[j].name => i = j

\* C2: an entry marked disabled holds no live transport and no client.
C2_DisabledHoldsNothing ==
    \A i \in 1..Len(connections) :
        connections[i].disabled =>
            connections[i].transport = 0 /\ connections[i].client = 0

\* the call that has just been made found no enabled entry to send to
CallRefused == lastCall.outcome \in {"ConnectionNotFound", "ServerDisabled"}

\* C3: callTool and readResource send a request only when the registry has an
\* entry for the name and that entry is not disabled; with no entry the call
\* fails with a connection-not-found error, with a disabled entry it fails
\* with a server-disabled error, and in both cases the registry is as it was.
C3_CallsNeedEnabledEntry ==
    lastCall.op # "none" =>
        LET mine == Named(lastCall.before, lastCall.name) IN
        /\ lastCall.outcome = "request" =>
              \E i \in mine : ~lastCall.before[i].disabled
        /\ mine = {} => lastCall.outcome = "ConnectionNotFound"
        /\ (mine # {} /\ \A i \in mine : lastCall.before[i].disabled) =>
              lastCall.outcome = "ServerDisabled"
        /\ CallRefused => connections = lastCall.before

\* a call to a disabled server has just been refused
C3_Witness ==
    /\ lastCall.op = "callTool"
    /\ lastCall.outcome = "ServerDisabled"
    /\ Named(connections, lastCall.name) # {}

\* C4: after a reconcile pass that ran alone has ended, every entry of the
\* registry has a name in the desired mapping; an entry whose name was not in
\* it is gone even when closing its transport or client threw.
C4_UndesiredRemoved ==
    \A p \in SoloPasses :
        \A i \in 1..Len(connections) :
            connections[i].name \in DOMAIN procs[p].desired

\* a pass has ended that removed an entry whose close threw
C4_Witness ==
    \E p \in SoloPasses :
        /\ procs[p].closeThrew
        /\ \E i \in 1..Len(procs[p].start) :
              /\ procs[p].start[i].name \notin DOMAIN procs[p].desired
              /\ procs[p].start[i].id \notin Ids(connections)

\* the entry e of the registry a pass started with has the configuration
\* the pass desires for its name
Unchanged(e, desired) ==
    e.name \in DOMAIN desired /\ deepEqual(Parse(e.config), desired[e.name])

\* the entry e is still registered: the same entry, with the same snapshot,
\* client, transport and lists, and its transport has not been closed
Untouched(e) ==
    \E j \in 1..Len(connections) :
        /\ connections[j].id = e.id
        /\ connections[j].config = e.config
        /\ connections[j].client = e.client
        /\ connections[j].transport = e.transport
        /\ connections[j].tools = e.tools
        /\ connections[j].resources = e.resources
        /\ connections[j].resourceTemplates = e.resourceTemplates
        /\ e.transport # 0 => ~transports[e.transport].closeT

\* C5: a reconcile pass that ran alone leaves every entry untouched whose name
\* is desired with a configuration deeply equal to the entry's snapshot.
C5_UnchangedUntouched ==
    \A p \in SoloPasses :
        \A i \in 1..Len(procs[p].start) :
            Unchanged(procs[p].start[i], procs[p].desired) => Untouched(procs[p].start[i])

\* C6: after a reconcile pass that ran alone and in which every connect
\* attempt succeeded, the names of the registry are the names of the desired
\* mapping and every entry's snapshot is deeply equal to the desired
\* configuration of its name.
C6_Converges ==
    \A p \in SoloPasses :
        procs[p].failed = {} =>
            /\ { connections[i].name : i \in 1..Len(connections) } = DOMAIN procs[p].desired
            /\ \A i \in 1..Len(connections) :
                  deepEqual(Parse(connections[i].config),
                            procs[p].desired[connections[i].name])

\* what a pass with the desired mapping does for the server name, given
\* the registry it started with: the entry the pass started with is kept
\* when its snapshot equals the desired configuration, and otherwise the
\* registry has exactly one entry of that name, created by the pass from the
\* desired configuration
Reconciled(name, start, desired) ==
    LET i == findConnection(start, name) IN
    IF i # 0 /\ Unchanged(start[i], desired)
    THEN start[i].id \in Ids(connections)
    ELSE /\ Cardinality(Named(connections, name)) = 1
         /\ \A j \in Named(connections, name) :
               /\ connections[j].id \notin Ids(start)
               /\ connections[j].config = Stringify(desired[name])

\* C7: in a reconcile pass, a connect that fails for one server does not stop
\* the pass: every other desired server is created, recreated or left
\* untouched as it would have been, and the pass does not throw because of
\* the failed connect (it can throw only from its final publication).
C7_FailuresIsolated ==
    \A p \in SoloPasses :
        /\ \A name \in DOMAIN procs[p].desired \ procs[p].failed :
              Reconciled(name, procs[p].start, procs[p].desired)
        /\ procs[p].pc = "threw" => procs[p].phase = "publish"

\* a pass has ended in which the connect of A failed and B, which comes
\* after A, was created
C7_Witness ==
    \E p \in SoloPasses :
        /\ procs[p].pc = "done"
        /\ procs[p].failed = {"A"}
        /\ \E j \in Named(connections, "B") :
              /\ connections[j].id \notin Ids(procs[p].start)
              /\ connections[j].status = "connected"

\* C8: when creating an enabled connection fails at any step, the server is
\* a registry entry with status disconnected and non-empty error text after
\* the operation that attempted it has returned.
C8_FailureRecorded ==
    \A p \in Alone :
        \A name \in procs[p].failed :
            \E i \in Named(connections, name) :
                /\ connections[i].status = "disconnected"
                /\ connections[i].error # <<>>

\* every entry that has a transport has the serialized configuration the
\* transport was built from as its snapshot
SnapshotMatchesTransport ==
    \A i \in 1..Len(connections) :
        connections[i].transport # 0 =>
            connections[i].config = Stringify(transports[connections[i].transport].config)

\* no step changes the snapshot of an entry that stays in the registry
SnapshotKept ==
    \A i \in 1..Len(connections) : \A j \in 1..Len(connections') :
        connections[i].id = connections'[j].id =>
            connections[i].config = connections'[j].config

\* C9: the snapshot of an entry is never modified after the entry is created
\* and always equals the serialized configuration its transport was built
\* from; a changed configuration takes effect only in a new entry.
C9_SnapshotFixed == [](SnapshotMatchesTransport) /\ [][SnapshotKept]_vars

\* a pass has ended that replaced an entry by a new entry with another
\* snapshot
C9_Witness ==
    \E p \in SoloPasses :
        \E i \in 1..Len(procs[p].start) : \E j \in 1..Len(connections) :
            /\ connections[j].name = procs[p].start[i].name
            /\ connections[j].config # procs[p].start[i].config
            /\ connections[j].id # procs[p].start[i].id
            /\ connections[j].transport # 0

\* the edges of the state machine of section 4.2
StatusEdges ==
    { <<"connecting", "connected">>, <<"connecting", "disconnected">>,
      <<"connected", "disconnected">>, <<"disconnected", "connecting">> }

\* every entry that stays in the registry keeps its status or follows an edge
StatusStep ==
    \A i \in 1..Len(connections) : \A j \in 1..Len(connections') :
        connections[i].id = connections'[j].id =>
            \/ connections[i].status = connections'[j].status
            \/ <<connections[i].status, connections'[j].status>> \in StatusEdges

\* C10: the status of an entry changes only along connecting->connected,
\* connecting->disconnected, connected->disconnected and
\* disconnected->connecting.
C10_StatusEdgesOnly == [][StatusStep]_vars

\* C11: no entry marked disabled has status connecting, also while a restart
\* is applied to a disabled server.
C11_DisabledNeverConnecting ==
    \A i \in 1..Len(connections) :
        connections[i].disabled => connections[i].status # "connecting"

\* the operation in flight that reconnects the server name: a restart, or a
\* reconcile pass that recreates it because its configuration changed
Reconnecting(name) ==
    \E p \in 1..Len(procs) :
        /\ procs[p].name = name
        /\ procs[p].kind = "restart" \/ procs[p].phase = "add"

\* an entry with a transport that a reconnection takes out of the registry
\* has had close() invoked on its transport and on its client
ClosedWhenReplaced ==
    \A i \in 1..Len(connections) :
        ( /\ connections[i].transport # 0
          /\ connections[i].id \notin Ids(connections')
          /\ Reconnecting(connections[i].name) ) =>
            /\ transports[connections[i].transport].closeT
            /\ transports[connections[i].client].closeC

\* an entry that enters the registry with a transport and a client has
\* objects that no entry had before it and that have not been closed
FreshWhenAttached ==
    \A j \in 1..Len(connections') :
        ( /\ connections'[j].id \notin Ids(connections)
          /\ connections'[j].transport # 0 ) =>
            /\ \A i \in 1..Len(connections) :
                  /\ connections[i].transport # connections'[j].transport
                  /\ connections[i].client # connections'[j].client
            /\ ~transports'[connections'[j].transport].closeT
            /\ ~transports'[connections'[j].client].closeC

\* C12: every reconnection (restart, or recreation on a changed
\* configuration) invokes close() on the old entry's transport and client
\* before the new entry gets a newly created transport and client; no
\* transport or client is reused by a later entry.
C12_CloseThenRebuild == [][ClosedWhenReplaced /\ FreshWhenAttached]_vars

\* the second half of C12 alone
C12_NeverReused == [][FreshWhenAttached]_vars

\* the first entry named as the transport id is, when the entry that has
\* this transport is connected; 0 otherwise
ConnectedOwner(id) ==
    IF \E i \in 1..Len(connections) :
          connections[i].transport = id /\ connections[i].status = "connected"
    THEN findConnection(connections, transports[id].name)
    ELSE 0

\* C13: for each transport kind, when the transport of a connected entry
\* reports an error or reports that it is closed, the entry with that server
\* name becomes disconnected, with the error text appended on error.  (The
\* change notification that follows is not part of this formula.)
C13_CallbacksDisconnect ==
    [][\A id \in DOMAIN transports :
          LET i == ConnectedOwner(id) IN
          i # 0 =>
              /\ TransportError(id) =>
                    /\ connections'[i].status = "disconnected"
                    /\ connections'[i].error = connections[i].error \o <<"transport error">>
              /\ TransportClosed(id) => connections'[i].status = "disconnected"]_vars

\* C14: a restart never throws to its caller: whatever fails during it, the
\* call returns normally.
C14_RestartNeverThrows ==
    \A p \in 1..Len(procs) :
        procs[p].kind = "restart" => procs[p].pc # "threw"

\* the restarts that have just returned to their caller and ran alone
SoloRestarts == { p \in Alone : procs[p].kind = "restart" /\ procs[p].pc = "done" }

\* C15: a restart affects exactly one connection: after it returns the
\* registry has an entry for the name whose configuration snapshot is the one
\* held before the restart, every other entry is as it was, and the restart
\* of a name with no entry changes no entry.
C15_RestartFrame ==
    \A p \in SoloRestarts :
        LET before == procs[p].start
            i == findConnection(before, procs[p].name)
        IN  /\ i # 0 => \E j \in Named(connections, procs[p].name) :
                            connections[j].config = before[i].config
            /\ i = 0 => connections = before
            /\ \A k \in 1..Len(before) :
                  before[k].name # procs[p].name =>
                      \E j \in 1..Len(connections) : connections[j] = before[k]
            /\ \A j \in 1..Len(connections) :
                  connections[j].name # procs[p].name =>
                      \E k \in 1..Len(before) : before[k] = connections[j]

\* the positions at which the server s is in the sequence ss
Occurrences(ss, s) == { j \in 1..Len(ss) : ss[j] = s }

\* C16: getSortedMcpServers returns a permutation of the registry's entries,
\* none dropped and none duplicated, in which the entries appear in the order
\* of their names in the key order of the settings file, whatever the order
\* in which the connections were created.
C16_SortedPermutation ==
    lastCall.op = "getSortedMcpServers" =>
        LET cs == lastCall.before
            serverOrder == lastCall.name
            sorted == lastCall.outcome
        IN  /\ Len(sorted) = Len(cs)
            /\ \A i \in 1..Len(cs) : Cardinality(Occurrences(sorted, server(cs[i]))) = 1
            /\ \A i, j \in 1..Len(sorted) :
                  /\ i < j
                  /\ indexOf(serverOrder, sorted[i].name) >= 0
                  /\ indexOf(serverOrder, sorted[j].name) >= 0
                  => indexOf(serverOrder, sorted[i].name) <= indexOf(serverOrder, sorted[j].name)

\* a registry created in another order than the key order has been sorted
C16_Witness ==
    /\ lastCall.op = "getSortedMcpServers"
    /\ \E i, j \in 1..Len(lastCall.before) :
          /\ i < j
          /\ indexOf(lastCall.name, lastCall.before[j].name) >= 0
          /\ indexOf(lastCall.name, lastCall.before[j].name)
                < indexOf(lastCall.name, lastCall.before[i].name)
    /\ lastCall.outcome # serversAsCreated(lastCall.before, lastCall.name)

\* the number of places of the sequence ss that hold n
Count(ss, n) == Cardinality({ k \in 1..Len(ss) : ss[k] = n })

\* C17: every notification received from a connected peer goes to exactly
\* one of two places: to the callback, and not to the queue, if a callback is
\* registered when it arrives; to the end of the pending list, and to no
\* callback, otherwise.  None is dropped and none is handled by both.
C17_RoutedOnce ==
    \A k \in 1..Len(received) :
        LET n == received[k].notification
            queued == Count(drained \o pendingNotifications, n)
            called == Count(callbackCalls, n)
        IN  IF received[k].consumer
            THEN called = 1 /\ queued = 0
            ELSE called = 0 /\ queued = 1

\* the log messages among the notifications received, as normalized
MessagesReceived(consumer) ==
    LET ms == SelectSeq(received, LAMBDA r : r.method = "notifications/message"
                                             /\ r.consumer = consumer)
    IN  [k \in 1..Len(ms) |-> ms[k].notification]

\* C17 for the notifications of method notifications/message only
C17_MessagesRoutedOnce ==
    /\ callbackCalls = MessagesReceived(TRUE)
    /\ drained \o pendingNotifications = MessagesReceived(FALSE)

\* C18: a drain returns all queued notifications in their arrival order and
\* leaves the queue empty, so every queued notification is returned by
\* exactly one drain and a drain repeated at once returns the empty sequence.
C18_DrainReturnsAll ==
    /\ drained \o pendingNotifications = MessagesReceived(FALSE)
    /\ lastCall.op = "getPendingNotifications" =>
          /\ lastCall.outcome = lastCall.before
          /\ pendingNotifications = <<>>
          /\ getPendingNotifications(pendingNotifications).returned = <<>>

\* a drain has returned two queued notifications, after an earlier drain
C18_Witness ==
    /\ lastCall.op = "getPendingNotifications"
    /\ Len(lastCall.outcome) >= 2
    /\ Len(drained) > Len(lastCall.outcome)

\* C19: the pending queue is bounded: its length stays below the number of
\* notifications that arrive while no consumer is registered and no drain is
\* performed, once that number is beyond the capacity.
C19_PendingBounded ==
    Len(pendingNotifications) < MaxNotifications

\* the discovery request of operation p returns in this step: the entry it is
\* for gets list as its cached list of that category, empty if the request
\* failed, and nothing else of the entry changes
DiscoveryStep(p, category, list) ==
    \A i \in 1..Len(connections) :
        connections[i].id = procs[p].cur =>
            \E j \in 1..Len(connections') :
                connections'[j] =
                    [connections[i] EXCEPT ![category] =
                        Some(IF faults' > faults THEN <<>> ELSE list)]

\* the connects that have gone through discovery with no transport callback
\* in between
Discovered ==
    { p \in 1..Len(procs) : /\ procs[p].pc \in {"notify", "done", "threw"}
                            /\ procs[p].quiet
                            /\ procs[p].cur # 0
                            /\ procs[p].failed = {} }

\* C20: after a successful connect, when one of the three discovery requests
\* fails, the cached list of that category is empty, the two other categories
\* hold what the peer answered, and the status stays connected.
C20_DiscoveryFailureIsolated ==
    /\ [][\A p \in 1..Len(procs) :
            /\ ToolsListReturns(p) => DiscoveryStep(p, "tools", fetchedTools(procs[p].name))
            /\ ResourcesListReturns(p) => DiscoveryStep(p, "resources", PeerResources)
            /\ TemplatesListReturns(p) => DiscoveryStep(p, "resourceTemplates", PeerTemplates)]_vars
    /\ [](\A p \in Discovered : \A i \in 1..Len(connections) :
            connections[i].id = procs[p].cur =>
                /\ connections[i].status = "connected"
                /\ connections[i].tools \in {Some(fetchedTools(connections[i].name)), Some(<<>>)}
                /\ connections[i].resources \in {Some(PeerResources), Some(<<>>)}
                /\ connections[i].resourceTemplates \in {Some(PeerTemplates), Some(<<>>)})

\* the connect of A has succeeded, its resources/list request has failed and
\* the two other requests have been answered
C20_Witness ==
    \E p \in Discovered : \E i \in 1..Len(connections) :
        /\ connections[i].id = procs[p].cur
        /\ connections[i].status = "connected"
        /\ connections[i].tools = Some(fetchedTools(connections[i].name))
        /\ connections[i].resources = Some(<<>>)
        /\ connections[i].resourceTemplates = Some(PeerTemplates)

\* what a snapshot of the registry cs shows: the servers, without the
\* identity of the connection objects
Shown(cs) ==
    [i \in 1..Len(cs) |-> [f \in DOMAIN cs[i] \ {"id", "client", "transport"} |-> cs[i][f]]]

\* the operations that have just returned to their caller and have changed
\* what the registry shows, or are reconcile passes
Mutators ==
    { p \in Ended : /\ procs[p].pc = "done"
                    /\ \/ procs[p].kind = "reconcile"
                       \/ procs[p].solo /\ Shown(procs[p].start) # Shown(connections) }

\* C21: a publication of the servers follows every reconcile pass and every
\* mutation of the state: when the operation that made the change returns,
\* it has published the servers as they are after the change.
C21_PublishedAfterChange ==
    \A p \in Mutators : procs[p].sent = Some(connections)

\* C22: auto-approve toggles go through the settings file as a set: after
\* toggling the tools T on, the file shows every tool of T approved; after
\* toggling T off, none; the tools outside T keep their state; and the same
\* toggle once more leaves the stored set as it is, for every list the file
\* starts with.
C22_ToggleRoundTrip ==
    (lastCall.op = "toggleToolAutoApprove" /\ lastCall.outcome = "written") =>
        LET old == Range(autoApproveConfig(lastCall.before, lastCall.name))
            new == Range(autoApproveConfig(file, lastCall.name))
            T == Range(lastCall.toolNames)
            again == toggleToolAutoApprove(file, lastCall.name, lastCall.toolNames,
                                           lastCall.shouldAllow).mcpServers
        IN  /\ lastCall.shouldAllow => T \subseteq new
            /\ ~lastCall.shouldAllow => T \cap new = {}
            /\ \A t \in ToolNames \ T : (t \in new) = (t \in old)
            /\ Range(autoApproveConfig(again, lastCall.name)) = new

\* C23: a timeout update with a value below the minimum is refused with an
\* error before anything is written: the settings file, the registry and
\* every connection are as they were.
C23_LowTimeoutRefused ==
    [][\A serverName \in CallNames, timeout \in TimeoutPool :
          (timeout < MIN_MCP_TIMEOUT_SECONDS /\ UpdateServerTimeoutRPC(serverName, timeout)) =>
              /\ lastCall'.outcome = "InvalidTimeout"
              /\ UNCHANGED <<settings, file, connections, transports, fileWatchers,
                             isConnecting, procs, nextId>>]_vars

\* a timeout below the minimum has just been refused for server A, which is
\* connected
C23_Witness ==
    /\ lastCall.op = "updateServerTimeoutRPC"
    /\ lastCall.outcome = "InvalidTimeout"
    /\ lastCall.name = "A"
    /\ \E i \in 1..Len(connections) :
          connections[i].name = "A" /\ connections[i].status = "connected"

\* C30: the timeout of a tools/call request is the timeout configured for
\* the server in the settings file as it is at the time of the call.
C30_TimeoutFromLiveConfig ==
    (lastCall.op = "callTool" /\ lastCall.outcome = "request"
        /\ lastCall.name \in DOMAIN settings) =>
        lastCall.timeout = secondsToMs(settings[lastCall.name].timeout)

\* the entries other than serverName, and their order, are the same in f and g
OthersKept(f, g, serverName) == Del(g, serverName) = Del(f, serverName)

\* the keys other than key of the entry of serverName, and their order, are
\* the same in f and g
KeysKept(f, g, serverName, key) ==
    (Has(f, serverName) /\ Has(g, serverName)) =>
        Del(Get(g, serverName), key) = Del(Get(f, serverName), key)

\* C24: every settings writer (disabled toggle, auto-approve toggle, timeout
\* update, add server, delete server) changes only what it targets: the
\* other entries, the other keys of the targeted entry and the order of the
\* remaining entries are the same in the file before and after the write.
C24_WritersFrame ==
    [][/\ \A name \in Names, disabled \in BOOLEAN :
            ToggleServerDisabledRPC(name, disabled) =>
                OthersKept(file, file', name) /\ KeysKept(file, file', name, "disabled")
       /\ \A serverName \in Names, timeout \in TimeoutPool :
            UpdateServerTimeoutRPC(serverName, timeout) =>
                OthersKept(file, file', serverName)
                    /\ KeysKept(file, file', serverName, "timeout")
       /\ \A serverName \in Names :
            AddRemoteServer(serverName, "http://b") => OthersKept(file, file', serverName)
       /\ \A serverName \in Names :
            DeleteServerRPC(serverName) => OthersKept(file, file', serverName)
       /\ \A serverName \in Names, shouldAllow \in BOOLEAN :
            ToggleToolAutoApprove(serverName, <<"t1">>, shouldAllow) =>
                OthersKept(file, file', serverName)
                    /\ KeysKept(file, file', serverName, "autoApprove")]_vars

\* C25: when the settings file holds malformed JSON or violates the schema,
\* initialization and the handling of a settings-change event run no
\* reconciliation, leave the registry and every connection unchanged, and
\* let no exception escape.
C25_InvalidSettingsIgnored ==
    [][\A content \in EditPool :
          (~settingsValid(content) /\ SettingsFileChanged(content)) =>
              /\ lastCall'.outcome = "ignored"
              /\ UNCHANGED <<connections, transports, procs, isConnecting, fileWatchers,
                             nextId, settings>>]_vars

\* the file has just been written with content that does not pass while A
\* is connected, and the handler has returned
C25_Witness ==
    /\ lastCall.op = "settingsChanged"
    /\ lastCall.outcome = "ignored"
    /\ ~settingsValid(file)
    /\ \E i \in 1..Len(connections) :
          connections[i].name = "A" /\ connections[i].status = "connected"

\* C29: whenever the server list is read, each cached tool's autoApprove
\* flag equals membership of the tool's name in that server's auto-approve
\* list in the settings file as it is at the time of the read.
C29_FlagsFromLiveFile ==
    lastCall.op = "getServers" =>
        \A i \in 1..Len(lastCall.outcome) :
            LET s == lastCall.outcome[i] IN
            s.tools # Undefined =>
                \A j \in 1..Len(s.tools[1]) :
                    s.tools[1][j].autoApprove
                        = (s.tools[1][j].name \in Range(autoApproveConfig(file, s.name)))

\* operation p goes on after one of its awaits
Resumes(p) ==
    \/ DelayElapsed(p)
    \/ TransportCloseReturns(p)
    \/ ClientCloseReturns(p)
    \/ TransportStartReturns(p)
    \/ ClientConnectReturns(p)
    \/ ToolsListReturns(p)
    \/ ResourcesListReturns(p)
    \/ TemplatesListReturns(p)
    \/ PublishReturns(p)

\* the entries of the registry, by their identity
Entries(cs) == [i \in 1..Len(cs) |-> cs[i].id]

\* C26: no two registry-mutating operations (reconciliation passes,
\* restarts) execute interleaved: an operation started while another is in
\* flight adds no entry to the registry and removes none until the earlier
\* one has completed.
C26_MutationsSerialized ==
    [][/\ (procs # <<>> /\ Len(procs') > Len(procs)) =>
              Entries(connections') = Entries(connections)
       /\ \A p \in 2..Len(procs) :
              Resumes(p) => Entries(connections') = Entries(connections)]_vars

\* the reconciliation passes and restarts that are executing
Executing ==
    { p \in 1..Len(procs) : /\ procs[p].kind \in {"reconcile", "restart"}
                            /\ procs[p].pc \notin {"done", "threw"} }

\* C27: isConnecting is true at every moment at which at least one
\* reconciliation pass or restart is executing, and false whenever none is,
\* also after a pass or restart that ended by an exception.
C27_FlagTracksExecution == isConnecting = (Executing # {})

\* the desired stdio servers whose argument list names a build artifact
Watchable(desired) ==
    { n \in DOMAIN desired : desired[n].type = "stdio" /\ desired[n].args = "build/index.js" }

\* C28: after every reconciliation pass completes, a file watcher is
\* installed for exactly the desired stdio servers whose argument list names
\* a build artifact, whether the config was new, changed or unchanged in the
\* pass, and for no name outside the desired set.
C28_WatchersAfterPass ==
    \A p \in Ended :
        (procs[p].kind = "reconcile" /\ procs[p].pc = "done" /\ procs[p].solo) =>
            fileWatchers = Watchable(procs[p].desired)

\* the server whose transport is id has had its disabled flag toggled to true
DisabledInPlace(id) ==
    \E i \in 1..Len(connections) :
        connections[i].disabled /\ connections[i].transport = id

\* every server of the file marked disabled is a disabled pseudo-entry
DisabledRecorded ==
    \A name \in DOMAIN settings :
        settings[name].disabled =>
            \E i \in 1..Len(connections) :
                /\ connections[i].name = name
                /\ connections[i].disabled
                /\ connections[i].status = "disconnected"
                /\ connections[i].transport = 0
                /\ connections[i].client = 0

\* a reconciliation pass has just ended, by returning or by the throw of its
\* publication
PassEnded ==
    \E p \in 1..Len(procs) :
        procs[p].kind = "reconcile" /\ procs[p].pc \in {"done", "threw"}

DeleteInvoked(id) ==
    /\ \E p \in 1..Len(procs) :
          procs[p].pc \in {"closeT", "closeC", "hung"} /\ procs[p].victim = id
    /\ \E i \in 1..Len(connections) : connections[i].id = id

\* C32: once deleteOne(name) is invoked for an existing entry, that entry is
\* eventually removed from the registry, whether close() of the transport or
\* client succeeds, throws, or never completes.
C32_DeleteRemoves ==
    \A id \in 1..MaxConns :
        DeleteInvoked(id) ~> (\A i \in 1..Len(connections) : connections[i].id # id)

\* the error text of an entry, line by line, begins with the text it had
ErrorKept(old, new) ==
    /\ Len(old.error) <= Len(new.error)
    /\ \A k \in 1..Len(old.error) : new.error[k] = old.error[k]

\* C33: for the lifetime of a registry entry its error text only grows: each
\* update appends the new text after a newline, and text accumulated earlier
\* is never dropped or shortened by any hub operation on that entry.
C33_ErrorOnlyGrows ==
    [][\A i \in 1..Len(connections) : \A j \in 1..Len(connections') :
          connections[i].id = connections'[j].id =>
              ErrorKept(connections[i], connections'[j])]_vars

\* operation p has created a transport in this step: a connect attempt begins
AttemptBegins(p) ==
    /\ procs'[p].pc \in {"start", "connect"}
    /\ procs'[p].cur >= nextId

\* pass p has, in this step, begun to delete the entry of a name of the file
ReplacementBegins(p) ==
    /\ Len(procs') >= Len(procs)
    /\ procs'[p].kind = "reconcile"
    /\ procs'[p].phase = "add"
    /\ procs'[p].pc \in {"closeT", "closeC"}
    /\ p <= Len(procs) => procs'[p].victim # procs[p].victim

\* the entry the registry finds under this name has this configuration
SameConfig(name, config) ==
    LET i == findConnection(connections, name)
    IN  i # 0 /\ connections[i].config = Stringify(config)

\* operation p was deleting the entry of the name it now connects
Replacing(p) ==
    /\ p <= Len(procs)
    /\ procs[p].pc \in {"closeT", "closeC"}
    /\ procs[p].name = procs'[p].name

\* C34: the hub starts a connect attempt for a server only inside a
\* reconciliation pass that finds the name new or its config changed, or
\* inside restart; a pass that finds an entry, disconnected or not, with an
\* unchanged config neither deletes it nor connects it again.
C34_NoRetry ==
    [][\A p \in 1..Len(procs') :
          /\ AttemptBegins(p) =>
                \/ procs'[p].kind = "restart"
                \/ procs'[p].kind = "reconcile" /\ Replacing(p)
                \/ procs'[p].kind = "reconcile" /\ ~SameConfig(procs'[p].name, procs'[p].cfg)
          /\ ReplacementBegins(p) => ~SameConfig(procs'[p].name, procs'[p].cfg)]_vars

\* a pass that ran alone has ended and has left alone an entry that was
\* disconnected, with a transport, when the pass began
C34_Witness ==
    \E p \in 1..Len(procs) :
        /\ procs[p].kind = "reconcile" /\ procs[p].pc = "done"
        /\ \E i \in 1..Len(connections) : \E j \in 1..Len(procs[p].start) :
              /\ procs[p].start[j].status = "disconnected"
              /\ procs[p].start[j].transport # 0
              /\ ~procs[p].start[j].disabled
              /\ connections[i].id = procs[p].start[j].id
              /\ connections[i].status = "disconnected"

\* C35: no transport is leaked: whenever no hub operation is in progress,
\* every transport and client the hub created and has not called close() on
\* is attached to a registry entry.
C35_NoTransportLeaked ==
    Quiescent =>
        \A id \in DOMAIN transports :
            ~transports[id].closeT \/ ~transports[id].closeC =>
                \E i \in 1..Len(connections) : connections[i].transport = id

\* C36: an error or close callback coming from a transport that has already
\* been replaced (its entry deleted and a new entry created under the same
\* name) never changes the status or error text of the replacement entry.
C36_StaleCallbacksIgnored ==
    [][\A id \in DOMAIN transports :
          TransportError(id) \/ TransportClosed(id) =>
              \A i \in 1..Len(connections) :
                  /\ connections[i].name = transports[id].name
                  /\ connections[i].transport # id
                  => /\ connections'[i].status = connections[i].status
                     /\ connections'[i].error = connections[i].error]_vars

\* C37: in every reachable state, every registry entry whose disabled flag
\* is false has a protocol client and a transport attached (including after
\* a disabled pseudo-entry's flag is toggled to false).
C37_EnabledHasClient ==
    \A i \in 1..Len(connections) :
        ~connections[i].disabled =>
            connections[i].client # 0 /\ connections[i].transport # 0

\* the entry made with this id has status connecting
Connecting(id) ==
    \E i \in 1..Len(connections) :
        connections[i].id = id /\ connections[i].status = "connecting"

\* C38: assuming every transport start, handshake and close call eventually
\* returns, no registry entry stays in status connecting forever: every entry
\* that enters connecting (on creation or at the start of a restart)
\* eventually becomes connected, becomes disconnected, or is removed.
C38_ConnectingEnds ==
    \A id \in 1..MaxConns : Connecting(id) ~> ~Connecting(id)

\* C39: once dispose() has completed, the registry is empty and stays empty
\* and no file watcher is open: a reconciliation pass, restart or connect
\* that was in flight when dispose was called does not add a connection or
\* watcher afterwards.
C39_DisposedStaysEmpty ==
    Disposed => connections = <<>> /\ fileWatchers = {}

\* the sockets that are connecting or open
Attempts == { i \in 1..Len(sockets) : sockets[i].readyState \in {"CONNECTING", "OPEN"} }

\* C40: in the remote-mode webview client, at most one WebSocket connection
\* attempt exists at a time: while a socket is connecting or open, no call
\* of waitForWebSocketConnection or initializeRemoteMode opens a second
\* socket, for any ordering of open, error, close and timeout events.
C40_OneSocketAtATime == Cardinality(Attempts) <= 1

====
